---- MODULE Spec2Model ----
(***************************************************************************)
(* Composite actuators of odemis (src/src/odemis/driver/actuator.py): the  *)
(* wrappers that turn the axes of dependency drivers into logical          *)
(* actuators.  Each actuator variant is modelled as a state machine of its *)
(* own, over its own variables, with a specification of its own:           *)
(*   SpecAB    AntiBacklashActuator over one dependency stage              *)
(*   SpecABStop  the same, with clients that also call stop()              *)
(*   SpecMux   MultiplexActuator over two dependency stages                *)
(*   SpecCyc   cyclic FixedPositionsActuator and RotationActuator          *)
(*   SpecConv  ConvertStage conversions                                    *)
(*   SpecCFP   CombinedFixedPositionActuator position matching             *)
(* Positions are integers (a fixed-point grid of the physical unit).       *)
(***************************************************************************)
EXTENDS Integers, Sequences, FiniteSets, TLC

VARIABLES
    \* ---- AntiBacklashActuator and its dependency stage
    abBacklash,   \* self._backlash: axis -> signed backlash (a partial map)
    abShifted,    \* self._shifted: axis -> BOOLEAN
    abSubmitted,  \* every request submitted so far, in order (its index is its id)
    abQueue,      \* executor queue: ids of the requests not started yet
    abTask,       \* worker -> the task body it runs (NoTask when idle)
    abDone,       \* resolved futures, in resolution order: [id, how]
    depCalls,     \* calls issued to the dependency, in order (its own queue)
    depPos,       \* dependency position VA: axis -> value
    \* ---- MultiplexActuator over two dependency stages
    mxPosition,   \* self._position, as published on the position VA
    mxSubmitted,  \* every request submitted so far, in order
    mxQueue,      \* executor queue: ids of the requests not started yet
    mxTask,       \* the body the worker runs: [id, waiting]
    mxDone,       \* resolved futures, in resolution order: [id, how]
    mxCalls,      \* calls issued to the dependencies, in order
    mxDepPos,     \* dependency -> its position VA
    mxStream,     \* the snapshots published on the position VA: [pos, call, during, open]
    cyCfg,        \* cyclic actuators: [cycle, offset, ref_start, cor]
    cyRaw,        \* position of the dependency axis
    cyReferenced, \* referenced VA
    cyPosition,   \* position VA
    cyMoveSum,    \* self._move_sum
    cyMoveNum,    \* self._move_num_total
    cyQueue,      \* executor queue: the requests not started yet
    cyLast,       \* the last body run: [op, arg, calls]
    cyTravel,     \* FixedPositionsActuator: distance moved since the last referencing
    cySubs,       \* the VAs of the dependency that callbacks of the actuator listen to
    cyExecutor,   \* self._executor: "running", or "None" after terminate
    cvMd,         \* ConvertStage metadata: [rotation, scale, translation]
    cvConv,       \* ConvertStage conversion: [Mtodep, Mfromdep, O]
    cvDepPos,     \* ConvertStage: position of the dependency, a vector
    cvPosition,   \* ConvertStage: position VA, a vector
    cvLast,       \* ConvertStage: the last operation: [op, axes, arg, sent, back, raised]
    cfCfg,        \* CombinedFixedPositionActuator: [positions, fallback, atol, cycle]
    cfRaw,        \* CombinedFixedPositionActuator: positions of the two dependency axes
    cfPosition,   \* CombinedFixedPositionActuator: position VA
    cfSubs,       \* CombinedFixedPositionActuator: dependencies whose position VA calls _updatePosition
    cfTask,       \* CombinedFixedPositionActuator: the body being run: [op, key, pending, failed, nested]
    cfLast,       \* CombinedFixedPositionActuator: the last body ended: [op, result, moved]
    cpConv,       \* CoupledStage: the conversion of self._stage_conv
    cpMaster,     \* CoupledStage: position of the master
    cpSlave,      \* CoupledStage: position of the slave
    cpPosition,   \* CoupledStage: position VA
    cpQueue,      \* CoupledStage: requests waiting in the executor
    cpLast,       \* CoupledStage: the last body run
    csPosShift,   \* CombinedSensorActuator: self._pos_shift
    csDepPos,     \* CombinedSensorActuator: position of the dependency actuator
    csSensor,     \* CombinedSensorActuator: position reported by the sensor
    csPosition,   \* CombinedSensorActuator: position VA
    csQueue,      \* CombinedSensorActuator: requests waiting in the executor
    csReqs,       \* CombinedSensorActuator: number of requests accepted
    csLast,       \* CombinedSensorActuator: the last body run
    csDone,       \* CombinedSensorActuator: resolved futures, in order: [id, how]
    csStopped,    \* CombinedSensorActuator: requests that were waiting at a stop()
    drLast,       \* discrete-position actuators: the last moveRel call: [op, shift, result]
    lnPeriod,     \* LinearActuator: self._ref_period (NoPeriod when disabled)
    lnMoveNum,    \* LinearActuator: self._move_num
    lnQueue,      \* LinearActuator: requests waiting in the executor: [op, init, early]
    lnLast,       \* LinearActuator: the last body run: [op, init, early, calls, result, stopped]
    lnSince,      \* LinearActuator: client moves executed since the last reference call
    lnState,      \* LinearActuator: state VA
    lnInitRef,    \* LinearActuator: the reference of __init__: none, queued, ok, failed
    acBacklash,   \* AntiBacklashActuator(...): the backlash argument, axis -> value
    acAxes,       \* AntiBacklashActuator(...): the axes of the dependency, axis -> [kind, range]
    acResult,     \* AntiBacklashActuator(...): [error, axes] of the construction
    mnPosition,   \* MultiplexActuator, notifications: the position VA
    mnSpeed,      \* MultiplexActuator, notifications: the speed VA
    mnReferenced, \* MultiplexActuator, notifications: the referenced VA
    mnLast,       \* MultiplexActuator, notifications: the last callback run: [va, dep]
    \* ---- FixedPositionsActuator and RotationActuator: stop(axes)
    spCall,       \* the call: [cls, axis, caxis, none, axes] (none: axes is None)
    spAsked,      \* dependency.stop(axes=...): [called, none, axes]
    \* ---- RotationActuator: updateMetadata
    rmCycle,      \* self._cycle
    rmMetadata,   \* self._metadata: key -> [real, v] (real: the value is a real number)
    rmDep,        \* position of the dependency axis
    rmPosition,   \* the position published
    rmLast,       \* the last call of updateMetadata: [md, error]
    actuator,     \* the class of the actuator under verification
    idleStops     \* number of stop() calls just made, in a row, on the idle actuator

abVars == <<abBacklash, abShifted, abSubmitted, abQueue, abTask, abDone, depCalls, depPos>>

mxVars == <<mxPosition, mxSubmitted, mxQueue, mxTask, mxDone, mxCalls, mxDepPos, mxStream>>

cyLife == <<cySubs, cyExecutor>>

cyVars ==
    <<cyCfg, cyRaw, cyReferenced, cyPosition, cyMoveSum, cyMoveNum, cyQueue, cyLast, cyTravel,
      cyLife>>

cvVars == <<cvMd, cvConv, cvDepPos, cvPosition, cvLast>>

cfBody == <<cfSubs, cfTask, cfLast>>

cfVars == <<cfCfg, cfRaw, cfPosition, cfBody>>

cpVars == <<cpConv, cpMaster, cpSlave, cpPosition, cpQueue, cpLast>>

csVars ==
    <<csPosShift, csDepPos, csSensor, csPosition, csQueue, csReqs, csLast, csDone, csStopped>>

drVars == <<drLast>>

lnVars == <<lnPeriod, lnMoveNum, lnQueue, lnLast, lnSince, lnState, lnInitRef>>
acVars == <<acBacklash, acAxes, acResult>>
mnVars == <<mnPosition, mnSpeed, mnReferenced, mnLast>>
spVars == <<spCall, spAsked>>
rmVars == <<rmCycle, rmMetadata, rmDep, rmPosition, rmLast>>

vars == <<abVars, mxVars, cyVars, cvVars, cfVars, cpVars, csVars, drVars, lnVars, acVars, mnVars, spVars, rmVars, actuator, idleStops>>

\* what the actions of one actuator leave alone: the other actuators
abOthers == <<actuator, mxVars, cyVars, cvVars, cfVars, cpVars, csVars, drVars, lnVars, acVars, mnVars, spVars, rmVars>>

mxOthers == <<actuator, abVars, cyVars, cvVars, cfVars, cpVars, csVars, drVars, lnVars, acVars, mnVars, spVars, rmVars>>

cyOthers == <<actuator, abVars, mxVars, cvVars, cfVars, cpVars, csVars, drVars, lnVars, acVars, mnVars, spVars, rmVars>>

cvOthers == <<actuator, abVars, mxVars, cyVars, cfVars, cpVars, csVars, drVars, lnVars, acVars, mnVars, spVars, rmVars>>

cfOthers == <<actuator, abVars, mxVars, cyVars, cvVars, cpVars, csVars, drVars, lnVars, acVars, mnVars, spVars, rmVars>>

cpOthers == <<actuator, abVars, mxVars, cyVars, cvVars, cfVars, csVars, drVars, lnVars, acVars, mnVars, spVars, rmVars>>

csOthers == <<actuator, abVars, mxVars, cyVars, cvVars, cfVars, cpVars, drVars, lnVars, acVars, mnVars, spVars, rmVars>>

lnOthers == <<actuator, abVars, mxVars, cyVars, cvVars, cfVars, cpVars, csVars, drVars, acVars, mnVars, spVars, rmVars>>
acOthers == <<actuator, abVars, mxVars, cyVars, cvVars, cfVars, cpVars, csVars, drVars, lnVars, mnVars, spVars, rmVars>>
mnOthers == <<actuator, abVars, mxVars, cyVars, cvVars, cfVars, cpVars, csVars, drVars, lnVars, acVars, spVars, rmVars>>
spOthers == <<actuator, abVars, mxVars, cyVars, cvVars, cfVars, cpVars, csVars, drVars, lnVars, acVars, mnVars, rmVars>>
rmOthers == <<actuator, abVars, mxVars, cyVars, cvVars, cfVars, cpVars, csVars, drVars, lnVars, acVars, mnVars, spVars>>

\* ------------------------------------------------------------------ bounds
\* number of client requests submitted in one behaviour
MaxReq == 3

\* number of client requests in the behaviours where the client also stops
MaxReqStop == 2

\* number of client requests to the MultiplexActuator
MaxReqMux == 2

\* number of successive stop() calls on an idle actuator that are told apart
MaxIdleStops == 2

\* ------------------------------------------------------------ shared helpers
\* the count of the stop() calls made in a row on an idle actuator, after one
\* more call of stop()
StopsAfter(idle) ==
    IF ~idle THEN 0
    ELSE IF idleStops < MaxIdleStops THEN idleStops + 1 ELSE idleStops

Axes == {"x", "y"}

\* dict.keys() <= other, v * b, abs
Abs(v) == IF v < 0 THEN -v ELSE v

Range(s) == {s[i] : i \in DOMAIN s}

\* Python's any() over a dict iterates over its KEYS: any(self._shifted) is
\* true as soon as one axis name is a non-empty string.
AnyOfDict(d) == \E k \in DOMAIN d : k # ""

\* ------------------------------------------------- executor (one per actuator)
\* a pool of two workers instead of one
max_workers_two == 1 + 1

\* CancellableThreadPoolExecutor(max_workers=1)
max_workers == 1

Workers == 1..max_workers

NoTask == [id |-> 0, pc |-> "idle", wait |-> 0]

\* executor.get_next_future(future): the future queued right after the
\* running one, None (0) when the queue is empty
get_next_future(queue) == IF queue = <<>> THEN 0 ELSE Head(queue)

\* ------------------------------------------------------ dependency stage
\* A dependency executes the calls it is given one at a time, in order, and
\* publishes its position when a call ends (tescan Stage._doMove).
Pending(calls) == {i \in DOMAIN calls : calls[i].st = "pending"}

FirstPending(calls) == CHOOSE i \in Pending(calls) : \A j \in Pending(calls) : i <= j

ApplyCall(pos, c) ==
    [a \in DOMAIN pos |->
        IF a \notin DOMAIN c.mv THEN pos[a]
        ELSE IF c.kind = "rel" THEN pos[a] + c.mv[a]
        ELSE c.mv[a]]

\* the dependency ends the call at the head of its queue
DepCallDone ==
    /\ actuator = "AntiBacklashActuator"
    /\ Pending(depCalls) # {}
    /\ LET i == FirstPending(depCalls) IN
        /\ depPos' = ApplyCall(depPos, depCalls[i])
        /\ depCalls' = [depCalls EXCEPT ![i].st = "done"]
    /\ UNCHANGED <<abBacklash, abShifted, abSubmitted, abQueue, abTask, abDone, abOthers>>
    /\ idleStops' = 0

\* dependency.stop(): the calls not started yet are cancelled; the one in
\* progress (the head, when the hardware has already started it) may or may
\* not be aborted.
DepStopped(calls, keepHead) ==
    [i \in DOMAIN calls |->
        IF calls[i].st = "pending" /\ ~(keepHead /\ i = FirstPending(calls))
        THEN [calls[i] EXCEPT !.st = "cancelled"]
        ELSE calls[i]]

\* ------------------------------------------------- AntiBacklashActuator
\* the backlash configurations explored
AbConfigs == { ("x" :> 1), ("x" :> -1 @@ "y" :> 1) }

\* the moves a client asks for
AbShifts == { ("x" :> -1), ("x" :> 1), ("x" :> -1 @@ "y" :> -1) }

AbTargets == { ("x" :> 1) }

\* _createFuture forgetting the update flag: every future claims its axes
createFuture_any_move(axes, update) == axes

\* _createFuture: f._update_axes
createFuture_update_axes(axes, update) == IF update THEN axes ELSE {}

\* _doMoveRel without the overshoot against the backlash
doMoveRel_no_overshoot(shift, shifted, backlash) == shift

\* _doMoveRel, lines 821-837: the shift sent to the dependency
doMoveRel_sub_shift(shift, shifted, backlash) ==
    [a \in DOMAIN shift |->
        IF a \notin DOMAIN backlash THEN shift[a]
        ELSE IF shift[a] * backlash[a] >= 0 THEN shift[a]
        ELSE IF shifted[a] THEN shift[a]
        ELSE shift[a] - backlash[a]]

\* _doMoveRel marking every moved axis that has a backlash, whatever the direction
doMoveRel_shifted_any_direction(shift, shifted, backlash) ==
    [a \in DOMAIN shifted |->
        IF a \in DOMAIN shift /\ a \in DOMAIN backlash THEN TRUE ELSE shifted[a]]

doMoveRel_shifted(shift, shifted, backlash) ==
    [a \in DOMAIN shifted |->
        IF a \in DOMAIN shift /\ a \in DOMAIN backlash /\ shift[a] * backlash[a] < 0
        THEN TRUE ELSE shifted[a]]

\* _doMoveAbs, lines 866-878
doMoveAbs_sub_pos(pos, cur, backlash) ==
    [a \in DOMAIN pos |->
        IF a \notin DOMAIN backlash THEN pos[a]
        ELSE IF (pos[a] - cur[a]) * backlash[a] >= 0 THEN pos[a]
        ELSE pos[a] - backlash[a]]

doMoveAbs_shifted(pos, cur, shifted, backlash) ==
    [a \in DOMAIN shifted |->
        IF a \in DOMAIN pos /\ a \in DOMAIN backlash
        THEN ~((pos[a] - cur[a]) * backlash[a] >= 0)
        ELSE shifted[a]]

\* _antiBacklashMove compensating every axis given, shifted or not
antiBacklashMove_sub_backlash_unmarked(axes, shifted, backlash) ==
    [a \in {x \in axes : x \in DOMAIN backlash} |-> backlash[a]]

\* _antiBacklashMove: the compensation move of the axes given
antiBacklashMove_sub_backlash(axes, shifted, backlash) ==
    [a \in {x \in axes : shifted[x] /\ x \in DOMAIN backlash} |-> backlash[a]]

antiBacklashMove_shifted(axes, shifted) ==
    [a \in DOMAIN shifted |-> IF a \in axes THEN FALSE ELSE shifted[a]]

\* "axes <= nf._update_axes": the next queued future is an update of these axes
NextIsUpdateOf(axes) ==
    LET nf == get_next_future(abQueue) IN
        /\ nf # 0
        /\ axes \subseteq createFuture_update_axes(DOMAIN abSubmitted[nf].mv,
                                                    abSubmitted[nf].upd)

\* ---------------------------------------------------------------------
\* MultiplexActuator: configuration
\* ---------------------------------------------------------------------

\* axes of the actuator, and the dependencies behind them
MxAxes == {"x", "y", "z"}

Deps == {"A", "B"}

\* self._axis_to_dep: axis name => (dependency, axis name of the dependency)
axis_to_dep ==
    [a \in MxAxes |-> IF a = "x" THEN [dep |-> "A", axis |-> "a"]
                      ELSE IF a = "y" THEN [dep |-> "B", axis |-> "b"]
                      ELSE [dep |-> "B", axis |-> "c"]]

\* dependencies_axes: dependency -> our axes
dependencies_axes(d) == {a \in MxAxes : axis_to_dep[a].dep = d}

DepAxes(d) == {axis_to_dep[a].axis : a \in dependencies_axes(d)}

\* after construction: the position is read from the dependencies, the
\* executor is idle
MxIdle ==
    /\ mxDepPos = [d \in Deps |-> [ca \in DepAxes(d) |-> 0]]
    /\ mxPosition = [a \in MxAxes |-> 0]
    /\ mxSubmitted = <<>>
    /\ mxQueue = <<>>
    /\ mxTask = [id |-> 0, waiting |-> <<>>]
    /\ mxDone = <<>>
    /\ mxCalls = <<>>
    /\ mxStream = <<>>

\* the largest value a dependency reports for a position or a speed
MaxMnValue == 1

\* self._speed, self._referenced: the axes of which the dependency has a speed
\* (all of them) and can be referenced (not z)
MnSpeedAxes == MxAxes

MnRefAxes == {"x", "y"}

\* after construction: the values read from the dependencies
MnIdle ==
    /\ mnPosition = [a \in MxAxes |-> 0]
    /\ mnSpeed = [a \in MnSpeedAxes |-> 0]
    /\ mnReferenced = [a \in MnRefAxes |-> FALSE]
    /\ mnLast = [va |-> "none", dep |-> "none"]

\* a real number as a metadata value
RealValue(v) == [real |-> TRUE, v |-> v]

\* a value that is not a number (a string, None)
NotReal == [real |-> FALSE, v |-> 0]

\* the metadata keys: the position correction, and another entry
RmKeys == {"POS_COR", "FAV_POS"}

\* the metadata after __init__
RmDefaultMd == [k \in RmKeys |-> RealValue(0)]

RmNoCall == [md |-> <<>>, error |-> "none"]

RmIdle ==
    /\ rmCycle = 1
    /\ rmMetadata = RmDefaultMd
    /\ rmDep = 0
    /\ rmPosition = 0
    /\ rmLast = RmNoCall

\* stop(axes): no call made, the dependency not asked anything
SpNoCall == [cls |-> "none", axis |-> "none", caxis |-> "none", none |-> TRUE, axes |-> {}]

SpNotAsked == [called |-> FALSE, none |-> FALSE, axes |-> {}]

SpIdle ==
    /\ spCall = SpNoCall
    /\ spAsked = SpNotAsked

\* ---------------------------------------------------------------------
\* Cyclic actuators (FixedPositionsActuator with a cycle, RotationActuator):
\* configuration
\* ---------------------------------------------------------------------

\* the longest cycle; the cycles are a whole number of steps of the axis
MaxCycle == 6

Cycles == {MaxCycle - 1, MaxCycle}

\* FixedPositionsActuator(positions, cycle): positions every offset steps,
\* self._offset = cycle / len(positions)
FixedConfigs ==
    {cfg \in [cycle : Cycles, offset : {2, 3}, ref_start : {0}, cor : {0}] :
        cfg.cycle % cfg.offset = 0}

\* RotationActuator(cycle, ref_start), with the MD_POS_COR metadata
RotationConfigs ==
    {[cycle |-> c, offset |-> 0, ref_start |-> r, cor |-> m] :
        c \in Cycles, r \in {0, 1}, m \in {0, -1, 2}}

\* self._positions of a FixedPositionsActuator
positions(cfg) == {p \in 0..(cfg.cycle - 1) : p % cfg.offset = 0}

NoBody == [op |-> "none", arg |-> 0, calls |-> <<>>]

\* the cyclic actuators, when another actuator is under verification
CyIdle ==
    /\ cyCfg = [cycle |-> MaxCycle, offset |-> 0, ref_start |-> 0, cor |-> 0]
    /\ cyRaw = 0
    /\ cyReferenced = TRUE
    /\ cyPosition = 0
    /\ cyMoveSum = 0
    /\ cyMoveNum = 0
    /\ cyQueue = <<>>
    /\ cyLast = NoBody
    /\ cyTravel = 0
    /\ cySubs = {"position", "referenced"}
    /\ cyExecutor = "running"

\* ---------------------------------------------------------------------
\* ConvertStage: numbers, vectors and the conversion
\* ---------------------------------------------------------------------

\* the floats are modelled by exact fractions n/d, kept in lowest terms
RECURSIVE Gcd(_, _)
Gcd(a, b) == IF b = 0 THEN a ELSE Gcd(b, a % b)

Frac(n, d) ==
    LET g == Gcd(Abs(n), Abs(d))
        sgn == IF d < 0 THEN -1 ELSE 1
    IN [n |-> (sgn * n) \div g, d |-> (sgn * d) \div g]

Whole(k) == [n |-> k, d |-> 1]

FAdd(a, b) == Frac(a.n * b.d + b.n * a.d, a.d * b.d)

FSub(a, b) == Frac(a.n * b.d - b.n * a.d, a.d * b.d)

FMul(a, b) == Frac(a.n * b.n, a.d * b.d)

FDiv(a, b) == Frac(a.n * b.d, a.d * b.n)

FNeg(a) == [n |-> -a.n, d |-> a.d]

\* numpy: vector sum and difference, matrix.dot(vector)
VAdd(v, w) == << FAdd(v[1], w[1]), FAdd(v[2], w[2]) >>

VSub(v, w) == << FSub(v[1], w[1]), FSub(v[2], w[2]) >>

Dot(M, v) ==
    << FAdd(FMul(M[1][1], v[1]), FMul(M[1][2], v[2])),
       FAdd(FMul(M[2][1], v[1]), FMul(M[2][2], v[2])) >>

\* the angles: a rotation is given by the point [cos, sin] of the unit circle
math_cos(rotation) == rotation.cos

math_sin(rotation) == rotation.sin

\* -rotation
Opposite(rotation) == [cos |-> rotation.cos, sin |-> FNeg(rotation.sin)]

\* rotations: 0, a quarter turn, and the angle of the 3-4-5 triangle
CvRotations ==
    { [cos |-> Whole(1), sin |-> Whole(0)], [cos |-> Whole(0), sin |-> Whole(1)],
      [cos |-> Frac(3, 5), sin |-> Frac(4, 5)] }

\* scales, none of them zero
CvScales ==
    { << Whole(1), Whole(1) >>, << Whole(2), Frac(-1, 2) >>, << Frac(1, 3), Whole(3) >> }

CvTranslations == { << Whole(0), Whole(0) >>, << Whole(1), Whole(-2) >> }

\* the coordinates of the positions and shifts of the clients
MaxCoord == 1

CvGrid == { << Whole(i), Whole(j) >> : i, j \in (-MaxCoord)..MaxCoord }

\* the shifts of the relative moves
CvShifts == { << Whole(1), Whole(0) >>, << Whole(0), Whole(-1) >>, << Whole(-1), Whole(1) >> }

\* updateMetadata(md): the metadata after the update of one entry
CvMetadataUpdates(old) ==
    {[old EXCEPT !.rotation = r] : r \in CvRotations}
        \cup {[old EXCEPT !.scale = sc] : sc \in CvScales}
        \cup {[old EXCEPT !.translation = t] : t \in CvTranslations}

\* _updateConversion: self._Mfromdep, with the scales of the rows for the columns
updateConversion_Mfromdep_by_rows(rotation, scale) ==
    << << FDiv(math_cos(Opposite(rotation)), scale[1]),
          FDiv(FNeg(math_sin(Opposite(rotation))), scale[1]) >>,
       << FDiv(math_sin(Opposite(rotation)), scale[2]),
          FDiv(math_cos(Opposite(rotation)), scale[2]) >> >>

\* _updateConversion: self._Mtodep
updateConversion_Mtodep(rotation, scale) ==
    << << FMul(math_cos(rotation), scale[1]), FMul(FNeg(math_sin(rotation)), scale[1]) >>,
       << FMul(math_sin(rotation), scale[2]), FMul(math_cos(rotation), scale[2]) >> >>

\* _updateConversion: self._Mfromdep
updateConversion_Mfromdep(rotation, scale) ==
    << << FDiv(math_cos(Opposite(rotation)), scale[1]),
          FDiv(FNeg(math_sin(Opposite(rotation))), scale[2]) >>,
       << FDiv(math_sin(Opposite(rotation)), scale[1]),
          FDiv(math_cos(Opposite(rotation)), scale[2]) >> >>

updateConversion(md) ==
    [Mtodep |-> updateConversion_Mtodep(md.rotation, md.scale),
     Mfromdep |-> updateConversion_Mfromdep(md.rotation, md.scale),
     O |-> md.translation]

\* _convertPosFromdep
convertPosFromdep(conv, pos_dep, absolute) ==
    LET p == Dot(conv.Mfromdep, pos_dep) IN
    IF absolute THEN VSub(p, conv.O) ELSE p

\* _convertPosTodep
convertPosTodep(conv, pos, absolute) ==
    Dot(conv.Mtodep, IF absolute THEN VAdd(pos, conv.O) ELSE pos)

\* __init__ with its default rotation, scale and translation
CvDefaultMd ==
    [rotation |-> [cos |-> Whole(1), sin |-> Whole(0)], scale |-> << Whole(1), Whole(1) >>,
     translation |-> << Whole(0), Whole(0) >>]

CvNoOp == [op |-> "none", arg |-> << Whole(0), Whole(0) >>, sent |-> << Whole(0), Whole(0) >>,
           back |-> << Whole(0), Whole(0) >>, axes |-> {}, raised |-> FALSE]

\* an updateMetadata that would leave the position VA for the next
\* notification of the dependency
updateMetadata_position_stale(old_conv, new_conv, pos_dep) ==
    convertPosFromdep(old_conv, pos_dep, TRUE)

\* updateMetadata: self._updatePosition(self._dependency.position.value),
\* after _updateConversion
updateMetadata_position(old_conv, new_conv, pos_dep) ==
    convertPosFromdep(new_conv, pos_dep, TRUE)

\* the axes named by the relative moves of the clients: the two of the stage,
\* or one that the stage does not have
CvRequestAxes == { {"x", "y"}, {"z"} }

\* shift.get("x", 0), shift.get("y", 0)
moveRel_vshift(axes, shift) ==
    << IF "x" \in axes THEN shift[1] ELSE Whole(0), IF "y" \in axes THEN shift[2] ELSE Whole(0) >>

\* the ConvertStage, when another actuator is under verification
CvIdle ==
    /\ cvMd = CvDefaultMd
    /\ cvConv = updateConversion(CvDefaultMd)
    /\ cvDepPos = << Whole(0), Whole(0) >>
    /\ cvPosition = << Whole(0), Whole(0) >>
    /\ cvLast = CvNoOp

\* ---------------------------------------------------------------------
\* CombinedFixedPositionActuator: configuration and position matching
\* ---------------------------------------------------------------------

\* cycle: None for an axis that is not cyclic
NoCycle == 0

\* the positions tables, in the order of the dict: key -> positions of the two
\* dependency axes
CfTables ==
    { << [key |-> "A", tp |-> <<0, 0>>], [key |-> "B", tp |-> <<1, 1>>],
         [key |-> "C", tp |-> <<0, 1>>] >>,
      << [key |-> "C", tp |-> <<0, 1>>], [key |-> "unknown", tp |-> <<3, 0>>],
         [key |-> "A", tp |-> <<0, 0>>] >> }

CfConfigs ==
    [positions : CfTables, fallback : {"unknown"},
     atol : { <<0, 0>>, <<1, 0>>, <<1, 1>> },
     cycle : { <<NoCycle, NoCycle>>, <<4, NoCycle>>, <<4, 4>> }]

\* the dependency axes report positions from -1 up to MaxRawPos
MaxRawPos == 4

CfRawPositions == (-1)..MaxRawPos

Min2(a, b) == IF a < b THEN a ELSE b

\* _readPositionfromDependencies: dist, without the modulo of the cyclic axes
readPosition_dist_linear(cp, tp, cyl) == Abs(cp - tp)

\* _readPositionfromDependencies: dist
readPosition_dist(cp, tp, cyl) ==
    IF cyl = NoCycle THEN Abs(cp - tp)
    ELSE Min2((cp - tp) % cyl, (tp - cp) % cyl)

\* _readPositionfromDependencies, inner loop from axis i on: TRUE when the loop
\* ends without break
RECURSIVE readPosition_axes(_, _, _, _)
readPosition_axes(cfg, cur, tp, i) ==
    IF i > Len(cur) THEN TRUE
    ELSE IF readPosition_dist(cur[i], tp[i], cfg.cycle[i]) > cfg.atol[i] THEN FALSE
    ELSE readPosition_axes(cfg, cur, tp, i + 1)

\* _readPositionfromDependencies, outer loop from entry k on
RECURSIVE readPositionfromDependencies(_, _, _)
readPositionfromDependencies(cfg, cur, k) ==
    IF k > Len(cfg.positions) THEN "LookupError"
    ELSE IF readPosition_axes(cfg, cur, cfg.positions[k].tp, 1) THEN cfg.positions[k].key
    ELSE readPositionfromDependencies(cfg, cur, k + 1)

\* _updatePosition: the value set on the position VA
updatePosition(cfg, cur) ==
    LET pos_key_matching == readPositionfromDependencies(cfg, cur, 1) IN
    IF pos_key_matching = "LookupError" THEN cfg.fallback ELSE pos_key_matching

\* the two dependencies, in the order of caxes_map
CfDeps == {1, 2}

\* the positions a dependency axis can be at after its referencing
CfRefPositions == {0, 2}

\* the keys of the positions table
CfKeys(cfg) == {cfg.positions[k].key : k \in DOMAIN cfg.positions}

\* self._positions[key]
CfTarget(cfg, key) ==
    cfg.positions[CHOOSE k \in DOMAIN cfg.positions : cfg.positions[k].key = key].tp

\* a body that would keep listening to the dependencies while it moves them
unsubscribe_none(subs) == subs

\* _doMoveAbs, _doReference, first statement: c.position.unsubscribe for
\* every dependency
unsubscribe_all(subs) == {}

\* _doMoveAbs, _doReference, finally: c.position.subscribe for every dependency
subscribe_all(subs) == CfDeps

\* _doReference: pos_distances of an entry of the table
reference_distance(cur, tp) == Abs(cur[1] - tp[1]) + Abs(cur[2] + tp[2])

\* _doReference: pos_key_closest, the first entry of the smallest pos_distances
reference_closest(cfg, cur) ==
    LET best == CHOOSE k \in DOMAIN cfg.positions :
                    \A j \in DOMAIN cfg.positions :
                        \/ reference_distance(cur, cfg.positions[k].tp)
                               < reference_distance(cur, cfg.positions[j].tp)
                        \/ /\ reference_distance(cur, cfg.positions[k].tp)
                                  = reference_distance(cur, cfg.positions[j].tp)
                           /\ k <= j
    IN cfg.positions[best].key

CfNoTask == [op |-> "none", key |-> "none", pending |-> {}, failed |-> {}, nested |-> FALSE]

CfNoBody == [op |-> "none", result |-> "ok", moved |-> FALSE]

\* no body has run
CfFresh ==
    /\ cfSubs = CfDeps
    /\ cfTask = CfNoTask
    /\ cfLast = CfNoBody

\* the CombinedFixedPositionActuator, when another actuator is under verification
CfIdle ==
    /\ cfCfg = [positions |-> << [key |-> "A", tp |-> <<0, 0>>] >>, fallback |-> "unknown",
                atol |-> <<0, 0>>, cycle |-> <<NoCycle, NoCycle>>]
    /\ cfRaw = <<0, 0>>
    /\ cfPosition = "A"
    /\ CfFresh

\* ---------------------------------------------------------------------
\* CoupledStage: configuration and move bodies
\* ---------------------------------------------------------------------

\* the positions within the range of the axes of the master
CpGrid == { << Whole(0), Whole(0) >>, << Whole(1), Whole(0) >>, << Whole(1), Whole(1) >> }

\* the shifts of the relative moves
CpShifts == { << Whole(0), Whole(0) >>, << Whole(0), Whole(1) >> }

\* the metadata the converter is created from
CpMetadata ==
    { [rotation |-> r, scale |-> << Whole(2), Frac(-1, 2) >>,
       translation |-> << Whole(1), Whole(-2) >>] : r \in CvRotations }

ZeroVector == << Whole(0), Whole(0) >>

CpNoBody ==
    [op |-> "none", target |-> ZeroVector, master_ok |-> TRUE, mpos |-> ZeroVector,
     slave_calls |-> <<>>, slave_ok |-> TRUE, result |-> "ok"]

\* _doMoveAbs / _doMoveRel without the finally: the slave follows only a
\* master move that succeeded
coupled_doMove_no_finally(conv, mpos, master_ok, slave_ok) ==
    [slave_calls |-> IF master_ok THEN << convertPosTodep(conv, mpos, TRUE) >> ELSE <<>>,
     result |-> IF ~master_ok THEN "master error"
                ELSE IF ~slave_ok THEN "slave error" ELSE "ok",
     updated |-> master_ok /\ slave_ok]

\* _doMoveAbs / _doMoveRel once the master move has ended, at mpos: the moveAbs
\* of the converter in the finally clause, the exception that leaves the body
\* (the one of the finally clause takes over), and whether _updatePosition runs
coupled_doMove(conv, mpos, master_ok, slave_ok) ==
    [slave_calls |-> << convertPosTodep(conv, mpos, TRUE) >>,
     result |-> IF ~slave_ok THEN "slave error"
                ELSE IF ~master_ok THEN "master error" ELSE "ok",
     updated |-> master_ok /\ slave_ok]

\* the CoupledStage, when another actuator is under verification
CpIdle ==
    /\ cpConv = updateConversion(CvDefaultMd)
    /\ cpMaster = ZeroVector
    /\ cpSlave = ZeroVector
    /\ cpPosition = ZeroVector
    /\ cpQueue = <<>>
    /\ cpLast = CpNoBody

\* ---------------------------------------------------------------------
\* CombinedSensorActuator: configuration and move body
\* ---------------------------------------------------------------------

\* most moveAbs requests accepted by a CombinedSensorActuator
MaxCsReq == 2

\* positions: the two positions of the axis
CsPositions == {Whole(0), Whole(1)}

\* to_sensor: position of the actuator -> position reported by the sensor
to_sensor(p) == IF p = Whole(0) THEN "off" ELSE "on"

\* what the sensor can report
CsSensorValues == {"off", "on", "between"}

\* the iteration of the retry loop at which _doMoveAbs raises
max_retry == 10

\* the extra move is a tenth of the requested move
extra_move == Frac(1, 10)

\* how many readings of the sensor in a row may differ from the expected one
CsMismatches == {0, 1, 2, max_retry - 1, max_retry}

CsMoveAbsCall(pos) == [call |-> "moveAbs", arg |-> pos]

CsMoveRelCall(shift) == [call |-> "moveRel", arg |-> shift]

\* a body that would save the extra moves made before it gives up
retry_exceeded_saving(calls, pos_shift, tot_shift) ==
    [calls |-> calls, result |-> "IOError", matched |-> FALSE, last_failed |-> FALSE,
     pos_shift |-> FAdd(pos_shift, tot_shift)]

\* if retry == 10: raise IOError(...), before self._pos_shift += tot_shift
retry_exceeded(calls, pos_shift, tot_shift) ==
    [calls |-> calls, result |-> "IOError", matched |-> FALSE, last_failed |-> FALSE,
     pos_shift |-> pos_shift]

\* _doMoveAbs: the while loop, entered for the (retry + 1)th time after the
\* calls made so far; the sensor differs from the expected position for the
\* first `mismatches` readings; rel_ok: the extra moves succeed
RECURSIVE doMoveAbs_retry(_, _, _, _, _, _, _, _)
doMoveAbs_retry(retry, calls, tot_shift, mismatches, p_cor, prev_pos, pos_shift, rel_ok) ==
    IF retry >= mismatches
    THEN [calls |-> calls, result |-> "ok", matched |-> TRUE, last_failed |-> FALSE,
          pos_shift |-> FAdd(pos_shift, tot_shift)]
    ELSE IF retry + 1 = max_retry
    THEN retry_exceeded(calls, pos_shift, tot_shift)
    ELSE IF p_cor = prev_pos
    THEN [calls |-> calls, result |-> "ok", matched |-> FALSE, last_failed |-> FALSE,
          pos_shift |-> pos_shift]
    ELSE LET shift == FMul(FSub(p_cor, prev_pos), extra_move) IN
         IF ~rel_ok
         THEN [calls |-> Append(calls, CsMoveRelCall(shift)), result |-> "IOError",
               matched |-> FALSE, last_failed |-> TRUE, pos_shift |-> pos_shift]
         ELSE doMoveAbs_retry(retry + 1, Append(calls, CsMoveRelCall(shift)),
                              FAdd(tot_shift, shift), mismatches, p_cor, prev_pos,
                              pos_shift, rel_ok)

\* CombinedSensorActuator._doMoveAbs: the calls to the dependency actuator, the
\* result of the future, whether the sensor ends at the expected position, and
\* self._pos_shift afterwards
sensor_doMoveAbs(p, pos_shift, prev_pos, mismatches, abs_ok, rel_ok) ==
    LET p_cor == FAdd(p, pos_shift) IN
    IF ~abs_ok
    THEN [calls |-> << CsMoveAbsCall(p) >>, result |-> "error", matched |-> FALSE,
          last_failed |-> TRUE, pos_shift |-> pos_shift]
    ELSE doMoveAbs_retry(0, << CsMoveAbsCall(p) >>, Whole(0), mismatches, p_cor, prev_pos,
                         pos_shift, rel_ok)

\* the position of the dependency actuator after the calls that succeeded
RECURSIVE CsDepAfter(_, _)
CsDepAfter(pos, calls) ==
    IF calls = <<>> THEN pos
    ELSE CsDepAfter(IF Head(calls).call = "moveAbs" THEN Head(calls).arg
                    ELSE FAdd(pos, Head(calls).arg), Tail(calls))

\* _updatePosition: the position that the sensor position stands for, if any
sensor_updatePosition(spos, old) ==
    IF \E ap \in CsPositions : to_sensor(ap) = spos
    THEN CHOOSE ap \in CsPositions : to_sensor(ap) = spos
    ELSE old

\* a worker that ends with the first body that raises: nothing queued is run
worker_next_until_failure(result, queue) ==
    IF result = "ok" THEN Tail(queue) ELSE <<>>

\* the worker of the executor, after a body has ended with the result: the
\* future of the body is resolved and the worker goes on with the queue
worker_next(result, queue) == Tail(queue)

CsNoBody ==
    [op |-> "none", p |-> Whole(0), p_cor |-> Whole(0), calls |-> <<>>, result |-> "ok"]

\* the CombinedSensorActuator, when another actuator is under verification
CsIdle ==
    /\ csPosShift = Whole(0)
    /\ csDepPos = Whole(0)
    /\ csSensor = "off"
    /\ csPosition = Whole(0)
    /\ csQueue = <<>>
    /\ csReqs = 0
    /\ csLast = CsNoBody
    /\ csDone = <<>>
    /\ csStopped = {}

\* ---------------------------------------------------------------------
\* AntiBacklashActuator.__init__: the backlash against the axes of the dependency
\* ---------------------------------------------------------------------

\* the widest range of a dependency axis
MaxSpan == 2

\* an axis with a range, and an axis with choices
RangeAxis(lo, hi) == [kind |-> "range", range |-> << lo, hi >>]
ChoicesAxis == [kind |-> "choices", range |-> << 0, 0 >>]

\* a test that also refuses a backlash as wide as the range
backlash_too_big_or_equal(rng, backlash) == rng[2] - rng[1] <= Abs(backlash)

\* if rng[1] - rng[0] < abs(backlash[an]): raise ValueError
backlash_too_big(rng, backlash) == rng[2] - rng[1] < Abs(backlash)

\* the range left for the clients: the margin is taken on the side the
\* anti-backlash move comes from
restricted_range(rng, backlash) ==
    IF backlash > 0 THEN << rng[1] + backlash, rng[2] >>
    ELSE << rng[1], rng[2] + backlash >>

\* __init__, from the loop over the axes of the dependency to the check of
\* the missing axes
AntiBacklashActuator_init(backlash, axes) ==
    IF \E an \in DOMAIN axes :
          /\ an \in DOMAIN backlash
          /\ axes[an].kind = "range"
          /\ backlash_too_big(axes[an].range, backlash[an])
    THEN [error |-> "ValueError", axes |-> << >>]
    ELSE IF DOMAIN backlash \ DOMAIN axes # {}
    THEN [error |-> "ValueError", axes |-> << >>]
    ELSE [error |-> "none",
          axes |-> [an \in DOMAIN axes |->
                      IF an \in DOMAIN backlash /\ axes[an].kind = "range"
                      THEN RangeAxis(restricted_range(axes[an].range, backlash[an])[1],
                                     restricted_range(axes[an].range, backlash[an])[2])
                      ELSE axes[an]]]

\* the arguments of the constructions checked: a dependency with an axis x
\* with a range and maybe an axis y, with a range or with choices
AcAxisSets ==
    { ("x" :> RangeAxis(lo, lo + span)) : lo \in {-1, 0}, span \in 0..MaxSpan }
    \cup { ("x" :> RangeAxis(lo, lo + span) @@ "y" :> ay) :
             lo \in {-1, 0}, span \in 0..MaxSpan, ay \in {ChoicesAxis, RangeAxis(0, 1)} }

AcBacklashes ==
    { ("x" :> b) : b \in -(MaxSpan + 1)..(MaxSpan + 1) }
    \cup { ("x" :> b @@ "y" :> c) : b \in -(MaxSpan + 1)..(MaxSpan + 1), c \in {-2, 1} }
    \cup { ("y" :> c) : c \in {-2, 0, 1} }

AcPending == [error |-> "pending", axes |-> << >>]

AcIdle ==
    /\ acBacklash = ("x" :> 1)
    /\ acAxes = ("x" :> RangeAxis(0, 1))
    /\ acResult = AcPending

\* ---------------------------------------------------------------------
\* LinearActuator
\* ---------------------------------------------------------------------

\* ref_period of an actuator that never references on its own (None, or 0:
\* "if self._ref_period and ...")
NoPeriod == 0

\* the longest ref_period
MaxPeriod == 2

\* most requests waiting in the executor queue
MaxLnQueue == 2

LnPeriods == {NoPeriod} \cup 1..MaxPeriod

\* the count of client moves since a reference call is kept up to this
\* value, and the behaviours are kept to move counters up to it
LnCap == MaxPeriod + 2

\* the call to the dependency that raises, if the body issues it
LnFailures == {"none", "moveAbsSync", "reference", "move"}

\* _referenceIfNeeded: the move is counted, and past ref_period moves the
\* dependency goes to the reference start and references: [calls, ok, move_num]
referenceIfNeeded(move_num, ref_period, fail) ==
    LET n == move_num + 1 IN
    IF ref_period # NoPeriod /\ n > ref_period
    THEN IF fail = "moveAbsSync"
         THEN [calls |-> << "moveAbsSync" >>, ok |-> FALSE, move_num |-> n]
         ELSE IF fail = "reference"
         THEN [calls |-> << "moveAbsSync", "reference" >>, ok |-> FALSE, move_num |-> n]
         ELSE [calls |-> << "moveAbsSync", "reference" >>, ok |-> TRUE, move_num |-> 0]
    ELSE [calls |-> <<>>, ok |-> TRUE, move_num |-> n]

\* _doMoveRel / _doMoveAbs (op): [calls, result, move_num]
linear_doMove(op, move_num, ref_period, fail) ==
    LET r == referenceIfNeeded(move_num, ref_period, fail) IN
    IF ~r.ok THEN [calls |-> r.calls, result |-> "error", move_num |-> r.move_num]
    ELSE [calls |-> Append(r.calls, op),
          result |-> IF fail = "move" THEN "error" ELSE "ok",
          move_num |-> r.move_num]

\* _doReference: the counter is reset, then the dependency references
linear_doReference(move_num, fail) ==
    [calls |-> << "reference" >>,
     result |-> IF fail = "reference" THEN "error" ELSE "ok",
     move_num |-> 0]

\* a done callback that would leave a failed referencing unnoticed
on_referenced_silent(result, state) == [state |-> state, stopped |-> FALSE]

\* _on_referenced, the done callback of the reference of __init__: on a
\* failure the dependency axis is stopped and the exception goes to the state VA
on_referenced(result, state) ==
    IF result = "ok" THEN [state |-> state, stopped |-> FALSE]
    ELSE [state |-> "error", stopped |-> TRUE]

\* the client moves executed since the last reference call, after the calls
\* of a body (the last call is the one that failed, if the body failed)
RECURSIVE LnSinceAfter(_, _, _)
LnSinceAfter(since, calls, failed) ==
    IF calls = <<>> THEN since
    ELSE LET c == Head(calls)
             s == IF c = "reference" THEN 0
                  ELSE IF c \in {"moveRel", "moveAbs"} /\ ~(failed /\ Len(calls) = 1)
                       THEN Min2(since + 1, LnCap)
                       ELSE since
         IN LnSinceAfter(s, Tail(calls), failed)

LnNoBody ==
    [op |-> "none", init |-> FALSE, early |-> FALSE, calls |-> <<>>, result |-> "ok",
     stopped |-> FALSE]

\* the LinearActuator, when another actuator is under verification
LnIdle ==
    /\ lnPeriod = NoPeriod
    /\ lnMoveNum = 0
    /\ lnQueue = <<>>
    /\ lnLast = LnNoBody
    /\ lnSince = 0
    /\ lnState = "ok"
    /\ lnInitRef = "none"

\* ---------------------------------------------------------------------
\* moveRel of the discrete-position actuators
\* ---------------------------------------------------------------------

\* the axis the actuator exposes (axis_name), and an axis it does not have
axis_name == "axis"

UnknownAxis == "other"

\* the shifts requested: none, the axis of the actuator, an axis the actuator
\* does not have, both
DrShifts == { [a \in S |-> 1] : S \in SUBSET {axis_name, UnknownAxis} }

\* Actuator._checkMoveRel: every axis of the shift is an axis of the actuator
\* (the axis has choices and no range: there is no length to check)
checkMoveRel(shift, axes) ==
    IF DOMAIN shift \subseteq axes THEN "ok" ELSE "ValueError"

\* a moveRel that would reject the request without looking at its axes
discrete_moveRel_unchecked(shift, axes, checks) ==
    IF DOMAIN shift = {} THEN "InstantaneousFuture" ELSE "NotImplementedError"

\* moveRel of FixedPositionsActuator and CombinedSensorActuator (checks), and
\* of CombinedFixedPositionActuator (no check): what the caller gets
discrete_moveRel(shift, axes, checks) ==
    IF DOMAIN shift = {} THEN "InstantaneousFuture"
    ELSE IF checks /\ checkMoveRel(shift, axes) # "ok" THEN checkMoveRel(shift, axes)
    ELSE "NotImplementedError"

DrNoCall == [op |-> "none", shift |-> <<>>, result |-> "none"]

\* no moveRel was called
DrIdle == drLast = DrNoCall

\* the state of an AntiBacklashActuator after construction
AbFresh ==
    /\ abShifted = [a \in Axes |-> FALSE]
    /\ abSubmitted = <<>>
    /\ abQueue = <<>>
    /\ abTask = [w \in Workers |-> NoTask]
    /\ abDone = <<>>
    /\ depCalls = <<>>
    /\ depPos = [a \in Axes |-> 0]

AbIdle == abBacklash = ("x" :> 1) /\ AbFresh

AbInit ==
    /\ actuator = "AntiBacklashActuator"
    /\ idleStops = 0
    /\ abBacklash \in AbConfigs
    /\ AbFresh
    /\ MxIdle
    /\ CyIdle
    /\ CvIdle
    /\ CfIdle
    /\ CpIdle
    /\ CsIdle
    /\ DrIdle
    /\ LnIdle
    /\ AcIdle
    /\ MnIdle
    /\ SpIdle
    /\ RmIdle

\* moveRel(shift, update) / moveAbs(pos, update): executor.submitf
AbSubmit(kind, mv, update, max) ==
    /\ actuator = "AntiBacklashActuator"
    /\ Len(abSubmitted) < max
    /\ abSubmitted' = Append(abSubmitted, [kind |-> kind, mv |-> mv, upd |-> update])
    /\ abQueue' = Append(abQueue, Len(abSubmitted) + 1)
    /\ UNCHANGED <<abBacklash, abShifted, abTask, abDone, depCalls, depPos, abOthers>>
    /\ idleStops' = 0

AbMoveRel(max) ==
    \E mv \in AbShifts, update \in BOOLEAN : AbSubmit("rel", mv, update, max)

AbMoveAbs(max) ==
    \E mv \in AbTargets, update \in BOOLEAN : AbSubmit("abs", mv, update, max)

\* the worker takes the next request and runs _doMoveRel/_doMoveAbs up to the
\* call of the dependency
AbStart(w) ==
    /\ actuator = "AntiBacklashActuator"
    /\ abTask[w] = NoTask
    /\ abQueue # <<>>
    /\ LET id == Head(abQueue)
           rq == abSubmitted[id]
           sub == IF rq.kind = "rel"
                  THEN doMoveRel_sub_shift(rq.mv, abShifted, abBacklash)
                  ELSE doMoveAbs_sub_pos(rq.mv, depPos, abBacklash)
           sh == IF rq.kind = "rel"
                 THEN doMoveRel_shifted(rq.mv, abShifted, abBacklash)
                 ELSE doMoveAbs_shifted(rq.mv, depPos, abShifted, abBacklash)
       IN
        /\ abQueue' = Tail(abQueue)
        /\ abShifted' = sh
        /\ depCalls' = Append(depCalls,
               [req |-> id, tag |-> "main", kind |-> rq.kind, mv |-> sub,
                st |-> "pending", pre |-> abShifted])
        /\ abTask' = [abTask EXCEPT ![w] =
               [id |-> id, pc |-> IF AnyOfDict(sh) THEN "poll" ELSE "sync",
                wait |-> Len(depCalls) + 1]]
    /\ UNCHANGED <<abBacklash, abSubmitted, abDone, depPos, abOthers>>
    /\ idleStops' = 0

AbResolve(w, how) ==
    /\ abDone' = Append(abDone, [id |-> abTask[w].id, how |-> how])
    /\ abTask' = [abTask EXCEPT ![w] = NoTask]

\* the polling loop finds that the next queued move is an update of the same
\* axes: the body returns at once, without the anti-backlash move
AbEarlyReturn(w) ==
    /\ actuator = "AntiBacklashActuator"
    /\ abTask[w].pc = "poll"
    /\ NextIsUpdateOf(DOMAIN abSubmitted[abTask[w].id].mv)
    /\ AbResolve(w, "early")
    /\ UNCHANGED <<abBacklash, abShifted, abSubmitted, abQueue, depCalls, depPos, abOthers>>
    /\ idleStops' = 0

\* the dependency move has ended: _antiBacklashMove
AbMainDone(w) ==
    /\ actuator = "AntiBacklashActuator"
    /\ abTask[w].pc \in {"poll", "sync"}
    /\ depCalls[abTask[w].wait].st = "done"
    /\ ~(abTask[w].pc = "poll" /\ NextIsUpdateOf(DOMAIN abSubmitted[abTask[w].id].mv))
    /\ LET axes == DOMAIN abSubmitted[abTask[w].id].mv
           sub_backlash == antiBacklashMove_sub_backlash(axes, abShifted, abBacklash)
       IN
        /\ abShifted' = antiBacklashMove_shifted(axes, abShifted)
        /\ IF DOMAIN sub_backlash # {}
           THEN /\ depCalls' = Append(depCalls,
                       [req |-> abTask[w].id, tag |-> "comp", kind |-> "rel",
                        mv |-> sub_backlash, st |-> "pending", pre |-> abShifted])
                /\ abTask' = [abTask EXCEPT ![w].pc = "comp",
                                            ![w].wait = Len(depCalls) + 1]
                /\ UNCHANGED abDone
           ELSE /\ AbResolve(w, "ok")
                /\ UNCHANGED depCalls
    /\ UNCHANGED <<abBacklash, abSubmitted, abQueue, depPos, abOthers>>
    /\ idleStops' = 0

\* moveRelSync of the anti-backlash move has ended
AbCompDone(w) ==
    /\ actuator = "AntiBacklashActuator"
    /\ abTask[w].pc = "comp"
    /\ depCalls[abTask[w].wait].st = "done"
    /\ AbResolve(w, "ok")
    /\ UNCHANGED <<abBacklash, abShifted, abSubmitted, abQueue, depCalls, depPos, abOthers>>
    /\ idleStops' = 0

\* the dependency call the body waits for was cancelled: the body raises
AbTaskFail(w) ==
    /\ actuator = "AntiBacklashActuator"
    /\ abTask[w].pc \in {"poll", "sync", "comp"}
    /\ depCalls[abTask[w].wait].st = "cancelled"
    /\ AbResolve(w, "error")
    /\ UNCHANGED <<abBacklash, abShifted, abSubmitted, abQueue, depCalls, depPos, abOthers>>
    /\ idleStops' = 0

\* no body runs and none is queued
AbIsIdle == abQueue = <<>> /\ \A w \in Workers : abTask[w] = NoTask

\* stop(axes): only self._dependency.stop(axes)
AbStop ==
    /\ actuator = "AntiBacklashActuator"
    /\ \E keepHead \in BOOLEAN : depCalls' = DepStopped(depCalls, keepHead)
    /\ idleStops' = StopsAfter(AbIsIdle)
    /\ UNCHANGED <<abBacklash, abShifted, abSubmitted, abQueue, abTask, abDone, depPos, abOthers>>

\* clients that only move
AbNext ==
    \/ AbMoveRel(MaxReq)
    \/ AbMoveAbs(MaxReq)
    \/ \E w \in Workers : AbStart(w)
    \/ \E w \in Workers : AbEarlyReturn(w)
    \/ \E w \in Workers : AbMainDone(w)
    \/ \E w \in Workers : AbCompDone(w)
    \/ DepCallDone

SpecAB == AbInit /\ [][AbNext]_vars

\* clients that move and stop
AbStopNext ==
    \/ AbMoveRel(MaxReqStop)
    \/ AbMoveAbs(MaxReqStop)
    \/ \E w \in Workers : AbStart(w)
    \/ \E w \in Workers : AbEarlyReturn(w)
    \/ \E w \in Workers : AbMainDone(w)
    \/ \E w \in Workers : AbCompDone(w)
    \/ \E w \in Workers : AbTaskFail(w)
    \/ AbStop
    \/ DepCallDone

SpecABStop == AbInit /\ [][AbStopNext]_vars

\* ---------------------------------------------------------------------
\* MultiplexActuator
\* ---------------------------------------------------------------------

\* the moves the clients request: a dict, as the list of its items in order
MxMoves ==
    { [kind |-> "abs", mv |-> << [axis |-> "x", v |-> 1], [axis |-> "y", v |-> 1] >>],
      [kind |-> "abs", mv |-> << [axis |-> "z", v |-> 2], [axis |-> "x", v |-> 2] >>],
      [kind |-> "rel", mv |-> << [axis |-> "y", v |-> 1] >>],
      [kind |-> "rel", mv |-> << [axis |-> "x", v |-> 1], [axis |-> "y", v |-> 1],
                                 [axis |-> "z", v |-> 1] >>] }

\* the axes sets stop() is called with (None: all the axes)
MxStopAxes == { {"x"}, {"y", "z"}, MxAxes }

\* _moveTodepMove: the dependencies of a move, in the order the dict gets them
RECURSIVE moveTodepMove_deps(_, _)
moveTodepMove_deps(mv, acc) ==
    IF mv = <<>> THEN acc
    ELSE LET d == axis_to_dep[Head(mv).axis].dep IN
         moveTodepMove_deps(Tail(mv), IF d \in Range(acc) THEN acc ELSE Append(acc, d))

\* _moveTodepMove: the move argument of one dependency
moveTodepMove(mv, d) ==
    LET mine == {i \in DOMAIN mv : axis_to_dep[mv[i].axis].dep = d} IN
    [ca \in {axis_to_dep[mv[i].axis].axis : i \in mine} |->
        mv[CHOOSE i \in mine : axis_to_dep[mv[i].axis].axis = ca].v]

\* _axesTodepAxes: the dependencies behind a set of axes
axesTodepAxes(axes) == {axis_to_dep[a].dep : a \in axes}

\* update_position_per_dep followed by _updatePosition: the snapshot published
\* when dependency d reports the position value
update_position_all(position, d, value) ==
    [a \in DOMAIN position |->
        IF axis_to_dep[a].dep = d THEN value[axis_to_dep[a].axis] ELSE 0]

update_position_per_dep(position, d, value) ==
    [a \in DOMAIN position |->
        IF a \in dependencies_axes(d) THEN value[axis_to_dep[a].axis] ELSE position[a]]

\* the moves queued in dependency d, and the one its executor runs first
MxPending(d) == {i \in DOMAIN mxCalls : mxCalls[i].dep = d /\ mxCalls[i].st = "pending"}

MxFirstPending(d) == CHOOSE i \in MxPending(d) : \A j \in MxPending(d) : i <= j

\* the calls of request id that have not ended
MxOpen(id) == {i \in DOMAIN mxCalls : mxCalls[i].req = id /\ mxCalls[i].st = "pending"}

MxInit ==
    /\ actuator = "MultiplexActuator"
    /\ idleStops = 0
    /\ MxIdle
    /\ AbIdle
    /\ CyIdle
    /\ CvIdle
    /\ CfIdle
    /\ CpIdle
    /\ CsIdle
    /\ DrIdle
    /\ LnIdle
    /\ AcIdle
    /\ MnIdle
    /\ SpIdle
    /\ RmIdle

\* __init__: the executor exists when the actuator has more than one
\* dependency (len(self.dependencies.value) > 1)
executor_created == Cardinality({axis_to_dep[a].dep : a \in MxAxes}) > 1

\* moveRel / moveAbs: with several dependencies, always through the executor
MxMove(r) ==
    /\ actuator = "MultiplexActuator"
    /\ executor_created
    /\ Len(mxSubmitted) < MaxReqMux
    /\ mxSubmitted' = Append(mxSubmitted, r)
    /\ mxQueue' = Append(mxQueue, Len(mxSubmitted) + 1)
    /\ UNCHANGED <<mxPosition, mxTask, mxDone, mxCalls, mxDepPos, mxStream, mxOthers>>
    /\ idleStops' = 0

MxMoveAbs == \E r \in MxMoves : r.kind = "abs" /\ MxMove(r)

MxMoveRel == \E r \in MxMoves : r.kind = "rel" /\ MxMove(r)

\* _doMoveRel / _doMoveAbs, first loop: one call per dependency
MxStart ==
    /\ actuator = "MultiplexActuator"
    /\ mxTask.id = 0
    /\ mxQueue # <<>>
    /\ LET id == Head(mxQueue)
           r == mxSubmitted[id]
           deps == moveTodepMove_deps(r.mv, <<>>)
       IN
        /\ mxCalls' = mxCalls \o
               [k \in 1..Len(deps) |->
                   [req |-> id, dep |-> deps[k], kind |-> r.kind,
                    mv |-> moveTodepMove(r.mv, deps[k]), st |-> "pending"]]
        /\ mxTask' = [id |-> id, waiting |-> [k \in 1..Len(deps) |-> Len(mxCalls) + k]]
    /\ mxQueue' = Tail(mxQueue)
    /\ UNCHANGED <<mxPosition, mxSubmitted, mxDone, mxDepPos, mxStream, mxOthers>>
    /\ idleStops' = 0

\* the future resolves: what is left of its dependency calls is recorded
MxResolve(id, how) ==
    mxDone' = Append(mxDone, [id |-> id, how |-> how, open |-> MxOpen(id)])

\* second loop, f.result() returns: on to the next future, or the end
MxWaitNext ==
    /\ actuator = "MultiplexActuator"
    /\ mxTask.id # 0
    /\ mxCalls[Head(mxTask.waiting)].st = "done"
    /\ IF Len(mxTask.waiting) > 1
       THEN /\ mxTask' = [mxTask EXCEPT !.waiting = Tail(@)]
            /\ UNCHANGED mxDone
       ELSE /\ mxTask' = [id |-> 0, waiting |-> <<>>]
            /\ MxResolve(mxTask.id, "ok")
    /\ UNCHANGED <<mxPosition, mxSubmitted, mxQueue, mxCalls, mxDepPos, mxStream, mxOthers>>
    /\ idleStops' = 0

\* second loop, f.result() raises: the body ends with the exception
MxTaskFail ==
    /\ actuator = "MultiplexActuator"
    /\ mxTask.id # 0
    /\ mxCalls[Head(mxTask.waiting)].st = "cancelled"
    /\ mxTask' = [id |-> 0, waiting |-> <<>>]
    /\ MxResolve(mxTask.id, "error")
    /\ UNCHANGED <<mxPosition, mxSubmitted, mxQueue, mxCalls, mxDepPos, mxStream, mxOthers>>
    /\ idleStops' = 0

\* a dependency ends its first queued move and notifies its position
MxDepCallDone(d) ==
    /\ actuator = "MultiplexActuator"
    /\ MxPending(d) # {}
    /\ LET i == MxFirstPending(d)
           value == ApplyCall(mxDepPos[d], mxCalls[i])
       IN
        /\ mxDepPos' = [mxDepPos EXCEPT ![d] = value]
        /\ mxCalls' = [mxCalls EXCEPT ![i].st = "done"]
        /\ mxPosition' = update_position_per_dep(mxPosition, d, value)
        /\ mxStream' = Append(mxStream,
               [pos |-> update_position_per_dep(mxPosition, d, value), call |-> i,
                during |-> mxTask.id, open |-> MxOpen(mxTask.id) \ {i}])
    /\ UNCHANGED <<mxSubmitted, mxQueue, mxTask, mxDone, mxOthers>>
    /\ idleStops' = 0

\* stop of the dependencies behind the axes: their queued moves are cancelled,
\* but for a move that has started
MxDepsStopped(deps, keep) ==
    [i \in DOMAIN mxCalls |->
        IF /\ mxCalls[i].st = "pending"
           /\ mxCalls[i].dep \in deps
           /\ ~(keep[mxCalls[i].dep] /\ i = MxFirstPending(mxCalls[i].dep))
        THEN [mxCalls[i] EXCEPT !.st = "cancelled"]
        ELSE mxCalls[i]]

\* no body runs and none is queued
MxIsIdle == mxQueue = <<>> /\ mxTask.id = 0

\* stop: the queue of the executor is emptied, the dependencies are stopped
MxStop(axes) ==
    /\ actuator = "MultiplexActuator"
    /\ mxQueue' = <<>>
    /\ mxDone' = mxDone \o
           [k \in 1..Len(mxQueue) |-> [id |-> mxQueue[k], how |-> "cancelled", open |-> {}]]
    /\ \E started \in SUBSET {d \in axesTodepAxes(axes) : MxPending(d) # {}} :
           mxCalls' = MxDepsStopped(axesTodepAxes(axes), [d \in Deps |-> d \in started])
    /\ idleStops' = StopsAfter(MxIsIdle)
    /\ UNCHANGED <<mxPosition, mxSubmitted, mxTask, mxDepPos, mxStream, mxOthers>>

MxNext ==
    \/ MxMoveAbs
    \/ MxMoveRel
    \/ MxStart
    \/ MxWaitNext
    \/ MxTaskFail
    \/ \E d \in Deps : MxDepCallDone(d)
    \/ \E axes \in MxStopAxes : MxStop(axes)

SpecMux == MxInit /\ [][MxNext]_vars

\* ---------------------------------------------------------------------
\* Cyclic actuators: FixedPositionsActuator with a cycle, RotationActuator
\* ---------------------------------------------------------------------

\* the number of moves after which RotationActuator references again
max_moves_before_ref == 5

\* most requests waiting in the executor queue
MaxCyQueue == 1

\* the dependency positions and move sums the guards keep the behaviours within
MaxRaw == 6

\* calls to the dependency: a relative move from a position, a referencing
MoveRelCall(shift, from) == [call |-> "moveRel", arg |-> shift, from |-> from]

ReferenceCall(from) == [call |-> "reference", arg |-> 0, from |-> from]

\* the position of the dependency axis after its referencing
ReferencePos == 0

\* RotationActuator._findShortestMove
findShortestMove(target_pos, cur_pos, cycle) ==
    LET vector == target_pos - cur_pos
        mod1 == vector % cycle
        mod2 == (-vector) % cycle
    IN IF mod1 < mod2 THEN mod1 ELSE -mod2

\* a position that would leave the mounting offset out
rotation_position_no_offset(raw, cfg) == raw % cfg.cycle

\* RotationActuator._updatePosition
rotation_position(raw, cfg) == (raw - cfg.cor) % cfg.cycle

\* util.find_closest: the value of the set nearest to val (the first of them)
find_closest(val, l) ==
    CHOOSE x \in l : \A y \in l : Abs(x - val) < Abs(y - val) \/ (Abs(x - val) = Abs(y - val) /\ x <= y)

\* a callback that would publish the position as it is received
fixed_position_raw(raw, cfg) == raw % cfg.cycle

\* FixedPositionsActuator._update_dep_position and _updatePosition: the
\* position received, modulo the cycle, then the nearest known position
fixed_position(raw, cfg) == find_closest(raw % cfg.cycle, positions(cfg))

\* the distance travelled since the last referencing, after the calls; what is
\* beyond cap is recorded as cap
RECURSIVE TravelAfter(_, _, _)
TravelAfter(travel, calls, cap) ==
    IF calls = <<>> THEN travel
    ELSE LET c == Head(calls)
             t == IF c.call = "reference" THEN 0 ELSE Min2(travel + Abs(c.arg), cap)
         IN TravelAfter(t, Tail(calls), cap)

\* RotationActuator._doMoveAbs, referencing on the count of the moves only
rotation_doMoveAbs_counter_only(pos, raw, num, cfg) ==
    LET target_pos == pos + cfg.cor
        move == findShortestMove(target_pos, raw, cfg.cycle)
        to_ref == findShortestMove(cfg.ref_start, raw, cfg.cycle)
        from_ref == findShortestMove(target_pos, ReferencePos, cfg.cycle)
    IN IF num + 1 >= max_moves_before_ref
       THEN [calls |-> << MoveRelCall(to_ref, raw), ReferenceCall(raw + to_ref),
                          MoveRelCall(from_ref, ReferencePos) >>,
             raw |-> ReferencePos + from_ref, num |-> 0]
       ELSE [calls |-> << MoveRelCall(move, raw) >>, raw |-> raw + move, num |-> num + 1]

\* RotationActuator._doMoveAbs: [calls, raw, num] from the position raw and the
\* counter num
rotation_doMoveAbs(pos, raw, num, cfg) ==
    LET target_pos == pos + cfg.cor
        move == findShortestMove(target_pos, raw, cfg.cycle)
        final_pos == raw + move
        pass_ref == (raw \div cfg.cycle) # (final_pos \div cfg.cycle)
        to_ref == findShortestMove(cfg.ref_start, raw, cfg.cycle)
        from_ref == findShortestMove(target_pos, ReferencePos, cfg.cycle)
    IN IF pass_ref \/ num + 1 >= max_moves_before_ref
       THEN [calls |-> << MoveRelCall(to_ref, raw), ReferenceCall(raw + to_ref),
                          MoveRelCall(from_ref, ReferencePos) >>,
             raw |-> ReferencePos + from_ref, num |-> 0]
       ELSE [calls |-> << MoveRelCall(move, raw) >>, raw |-> final_pos, num |-> num + 1]

\* FixedPositionsActuator._doMoveAbs with a cycle: [calls, raw, sum] from the
\* position cur_pos and the accumulated move sum
fixed_doMoveAbs(distance, cur_pos, sum, cfg) ==
    LET mod1 == (distance - cur_pos) % cfg.cycle
        mod2 == (cur_pos - distance) % cfg.cycle
        move_to_ref == ((cfg.cycle - cur_pos) % cfg.cycle) + cfg.offset
    IN IF Abs(mod1) < Abs(mod2)
       THEN IF sum + mod1 >= cfg.cycle
            THEN [calls |-> << MoveRelCall(move_to_ref, cur_pos),
                               ReferenceCall(cur_pos + move_to_ref),
                               MoveRelCall(distance, ReferencePos) >>,
                  raw |-> ReferencePos + distance, sum |-> 0]
            ELSE [calls |-> << MoveRelCall(mod1, cur_pos) >>,
                  raw |-> cur_pos + mod1, sum |-> sum + mod1]
       ELSE [calls |-> << MoveRelCall(-mod2, cur_pos) >>,
             raw |-> cur_pos - mod2, sum |-> sum - mod2]

IsRotation == actuator = "RotationActuator"

IsFixed == actuator = "FixedPositionsActuator"

\* after construction: the FixedPositionsActuator has referenced its axis, the
\* RotationActuator has found it referenced, anywhere
CyInit ==
    /\ actuator \in {"RotationActuator", "FixedPositionsActuator"}
    /\ idleStops = 0
    /\ IF IsFixed
       THEN /\ cyCfg \in FixedConfigs
            /\ cyRaw = ReferencePos
            /\ cyPosition = fixed_position(cyRaw, cyCfg)
       ELSE /\ cyCfg \in RotationConfigs
            /\ cyRaw \in (-1)..cyCfg.cycle
            /\ cyPosition = rotation_position(cyRaw, cyCfg)
    /\ cyReferenced = TRUE
    /\ cyMoveSum = 0
    /\ cyMoveNum = 0
    /\ cyQueue = <<>>
    /\ cyLast = NoBody
    /\ cyTravel = 0
    /\ cySubs = {"position", "referenced"}
    /\ cyExecutor = "running"
    /\ AbIdle
    /\ MxIdle
    /\ CvIdle
    /\ CfIdle
    /\ CpIdle
    /\ CsIdle
    /\ DrIdle
    /\ LnIdle
    /\ AcIdle
    /\ MnIdle
    /\ SpIdle
    /\ RmIdle

\* the values moveAbs accepts
CyTargets == IF IsFixed THEN positions(cyCfg) ELSE 0..(cyCfg.cycle - 1)

\* moveAbs: the body is queued
CyMoveAbs ==
    /\ IsRotation \/ IsFixed
    /\ cyExecutor = "running"
    /\ Len(cyQueue) < MaxCyQueue
    /\ \E t \in CyTargets : cyQueue' = Append(cyQueue, [op |-> "moveAbs", arg |-> t])
    /\ UNCHANGED <<cyCfg, cyRaw, cyReferenced, cyPosition, cyMoveSum, cyMoveNum, cyLast, cyTravel, cyLife, cyOthers>>
    /\ idleStops' = 0

\* reference: the body is queued
CyReference ==
    /\ IsRotation \/ IsFixed
    /\ cyExecutor = "running"
    /\ Len(cyQueue) < MaxCyQueue
    /\ cyQueue' = Append(cyQueue, [op |-> "reference", arg |-> 0])
    /\ UNCHANGED <<cyCfg, cyRaw, cyReferenced, cyPosition, cyMoveSum, cyMoveNum, cyLast, cyTravel, cyLife, cyOthers>>
    /\ idleStops' = 0

\* the worker runs RotationActuator._doMoveAbs
RotDoMoveAbs ==
    /\ IsRotation
    /\ cyQueue # <<>> /\ Head(cyQueue).op = "moveAbs"
    /\ LET r == rotation_doMoveAbs(Head(cyQueue).arg, cyRaw, cyMoveNum, cyCfg) IN
        /\ cyRaw' = r.raw
        /\ cyMoveNum' = r.num
        /\ cyPosition' = rotation_position(r.raw, cyCfg)
        /\ cyLast' = [op |-> "moveAbs", arg |-> Head(cyQueue).arg, calls |-> r.calls]
    /\ cyQueue' = Tail(cyQueue)
    /\ UNCHANGED <<cyCfg, cyReferenced, cyMoveSum, cyTravel, cyLife, cyOthers>>
    /\ idleStops' = 0

\* the worker runs FixedPositionsActuator._doMoveAbs
FixDoMoveAbs ==
    /\ IsFixed
    /\ cyQueue # <<>> /\ Head(cyQueue).op = "moveAbs"
    /\ LET r == fixed_doMoveAbs(Head(cyQueue).arg, cyRaw, cyMoveSum, cyCfg) IN
        /\ Abs(r.raw) <= MaxRaw /\ Abs(r.sum) <= MaxRaw
        /\ cyRaw' = r.raw
        /\ cyMoveSum' = r.sum
        /\ cyPosition' = fixed_position(r.raw, cyCfg)
        /\ cyLast' = [op |-> "moveAbs", arg |-> Head(cyQueue).arg, calls |-> r.calls]
        /\ cyTravel' = TravelAfter(cyTravel, r.calls, cyCfg.cycle + 1)
    /\ cyQueue' = Tail(cyQueue)
    /\ UNCHANGED <<cyCfg, cyReferenced, cyMoveNum, cyLife, cyOthers>>
    /\ idleStops' = 0

\* the worker runs _doReference: the counters are left as they are
CyDoReference ==
    /\ IsRotation \/ IsFixed
    /\ cyQueue # <<>> /\ Head(cyQueue).op = "reference"
    /\ cyRaw' = ReferencePos
    /\ cyReferenced' = TRUE
    /\ cyPosition' = IF IsFixed THEN fixed_position(ReferencePos, cyCfg)
                     ELSE rotation_position(ReferencePos, cyCfg)
    /\ cyLast' = [op |-> "reference", arg |-> 0, calls |-> << ReferenceCall(cyRaw) >>]
    /\ cyTravel' = 0
    /\ cyQueue' = Tail(cyQueue)
    /\ UNCHANGED <<cyCfg, cyMoveSum, cyMoveNum, cyLife, cyOthers>>
    /\ idleStops' = 0

\* no body is queued (a body runs in one step)
CyIsIdle == cyQueue = <<>>

\* a stop that would also forget the drift counters
CyStop_resetting ==
    /\ IsRotation \/ IsFixed
    /\ cyQueue' = IF IsRotation THEN <<>> ELSE cyQueue
    /\ idleStops' = StopsAfter(CyIsIdle)
    /\ cyMoveNum' = 0
    /\ cyMoveSum' = 0
    /\ UNCHANGED <<cyCfg, cyRaw, cyReferenced, cyPosition, cyLast, cyTravel, cyLife, cyOthers>>

\* stop: RotationActuator empties the queue of its executor,
\* FixedPositionsActuator does not; both stop the dependency, which is not moving
CyStop ==
    /\ IsRotation \/ IsFixed
    /\ cyQueue' = IF IsRotation THEN <<>> ELSE cyQueue
    /\ idleStops' = StopsAfter(CyIsIdle)
    /\ UNCHANGED <<cyCfg, cyRaw, cyReferenced, cyPosition, cyMoveSum, cyMoveNum, cyLast, cyTravel, cyLife, cyOthers>>

CyNext ==
    \/ CyMoveAbs
    \/ CyReference
    \/ RotDoMoveAbs
    \/ FixDoMoveAbs
    \/ CyDoReference
    \/ CyStop

SpecCyc == CyInit /\ [][CyNext]_vars

\* terminate: stop() (which empties the queue of a RotationActuator), then the
\* executor is shut down once the bodies still queued have run; the position
\* callback is unsubscribed, the referenced callback is subscribed once more
CyTerminate ==
    /\ IsRotation \/ IsFixed
    /\ cyExecutor = "running"
    /\ IsFixed => cyQueue = <<>>
    /\ cyQueue' = <<>>
    /\ cyExecutor' = "None"
    /\ cySubs' = (cySubs \ {"position"}) \cup {"referenced"}
    /\ idleStops' = 0
    /\ UNCHANGED <<cyCfg, cyRaw, cyReferenced, cyPosition, cyMoveSum, cyMoveNum, cyLast,
                   cyTravel, cyOthers>>

\* clients that move and terminate
CyTermNext ==
    \/ CyMoveAbs
    \/ RotDoMoveAbs
    \/ FixDoMoveAbs
    \/ CyTerminate

SpecCycTerm == CyInit /\ [][CyTermNext]_vars

\* ---------------------------------------------------------------------
\* FixedPositionsActuator: what is published while the dependency moves
\* ---------------------------------------------------------------------

\* the dependency notifies a position of its axis, known or not:
\* _update_dep_position runs if it is subscribed
FixDepMoved ==
    /\ IsFixed
    /\ \E v \in (-1)..cyCfg.cycle :
        /\ v # cyRaw
        /\ cyRaw' = v
        /\ cyPosition' = IF "position" \in cySubs THEN fixed_position(v, cyCfg) ELSE cyPosition
    /\ UNCHANGED <<cyCfg, cyReferenced, cyMoveSum, cyMoveNum, cyQueue, cyLast, cyTravel, cyLife,
                   cyOthers>>
    /\ idleStops' = 0

\* the worker starts _doMoveAbs: the callback is unsubscribed
FixMoveStart ==
    /\ IsFixed
    /\ cyQueue # <<>> /\ Head(cyQueue).op = "moveAbs"
    /\ "position" \in cySubs
    /\ cySubs' = cySubs \ {"position"}
    /\ UNCHANGED <<cyCfg, cyRaw, cyReferenced, cyPosition, cyMoveSum, cyMoveNum, cyQueue, cyLast,
                   cyTravel, cyExecutor, cyOthers>>
    /\ idleStops' = 0

\* _doMoveAbs ends, the moves done or the first of them failed: the callback
\* is subscribed again, with init=True
FixMoveEnd ==
    /\ IsFixed
    /\ cyQueue # <<>> /\ Head(cyQueue).op = "moveAbs"
    /\ "position" \notin cySubs
    /\ \E ok \in BOOLEAN :
       LET r == fixed_doMoveAbs(Head(cyQueue).arg, cyRaw, cyMoveSum, cyCfg)
           raw == IF ok THEN r.raw ELSE cyRaw
       IN
        /\ Abs(r.raw) <= MaxRaw /\ Abs(r.sum) <= MaxRaw
        /\ cyRaw' = raw
        /\ cyMoveSum' = r.sum
        /\ cyPosition' = fixed_position(raw, cyCfg)
        /\ cyLast' = [op |-> "moveAbs", arg |-> Head(cyQueue).arg,
                      calls |-> IF ok THEN r.calls ELSE << r.calls[1] >>]
        /\ cyTravel' = TravelAfter(cyTravel, r.calls, cyCfg.cycle + 1)
    /\ cySubs' = cySubs \cup {"position"}
    /\ cyQueue' = Tail(cyQueue)
    /\ UNCHANGED <<cyCfg, cyReferenced, cyMoveNum, cyExecutor, cyOthers>>
    /\ idleStops' = 0

FixPubNext ==
    \/ CyMoveAbs
    \/ FixDepMoved
    \/ FixMoveStart
    \/ FixMoveEnd

FixPubInit == CyInit /\ IsFixed

SpecFixedPub == FixPubInit /\ [][FixPubNext]_vars

\* ---------------------------------------------------------------------
\* ConvertStage
\* ---------------------------------------------------------------------

\* __init__: any metadata, the dependency anywhere on the grid
CvInit ==
    /\ actuator = "ConvertStage"
    /\ idleStops = 0
    /\ cvMd \in [rotation : CvRotations, scale : CvScales, translation : CvTranslations]
    /\ cvConv = updateConversion(cvMd)
    /\ cvDepPos \in CvGrid
    /\ cvPosition = convertPosFromdep(cvConv, cvDepPos, TRUE)
    /\ cvLast = CvNoOp
    /\ AbIdle
    /\ MxIdle
    /\ CyIdle
    /\ CfIdle
    /\ CpIdle
    /\ CsIdle
    /\ DrIdle
    /\ LnIdle
    /\ AcIdle
    /\ MnIdle
    /\ SpIdle
    /\ RmIdle

\* updateMetadata: the conversion and the position are recomputed
CvUpdateMetadata ==
    /\ actuator = "ConvertStage"
    /\ \E md \in CvMetadataUpdates(cvMd) :
        /\ cvMd' = md
        /\ cvConv' = updateConversion(md)
        /\ cvPosition' = updateMetadata_position(cvConv, updateConversion(md), cvDepPos)
    /\ cvLast' = [CvNoOp EXCEPT !.op = "updateMetadata"]
    /\ idleStops' = 0
    /\ UNCHANGED <<cvDepPos, cvOthers>>

\* moveAbs: the dependency goes to the converted position, and reports it
CvMoveAbs ==
    /\ actuator = "ConvertStage"
    /\ \E pos \in CvGrid :
        LET vpos_dep == convertPosTodep(cvConv, pos, TRUE) IN
        /\ cvDepPos' = vpos_dep
        /\ cvPosition' = convertPosFromdep(cvConv, vpos_dep, TRUE)
        /\ cvLast' = [op |-> "moveAbs", arg |-> pos, sent |-> vpos_dep,
                      back |-> convertPosFromdep(cvConv, vpos_dep, TRUE),
                      axes |-> {"x", "y"}, raised |-> FALSE]
    /\ idleStops' = 0
    /\ UNCHANGED <<cvMd, cvConv, cvOthers>>

\* moveRel, from a position of the grid: the dependency moves by the converted
\* shift, and reports its position
CvMoveRel ==
    /\ actuator = "ConvertStage"
    /\ cvDepPos \in CvGrid
    /\ \E shift \in CvShifts : \E axes \in CvRequestAxes :
        LET vshift == moveRel_vshift(axes, shift)
            vshift_dep == convertPosTodep(cvConv, vshift, FALSE)
        IN
        /\ cvDepPos' = VAdd(cvDepPos, vshift_dep)
        /\ cvPosition' = convertPosFromdep(cvConv, VAdd(cvDepPos, vshift_dep), TRUE)
        /\ cvLast' = [op |-> "moveRel", arg |-> vshift, sent |-> vshift_dep,
                      back |-> convertPosFromdep(cvConv, vshift_dep, FALSE),
                      axes |-> axes, raised |-> FALSE]
    /\ idleStops' = 0
    /\ UNCHANGED <<cvMd, cvConv, cvOthers>>

\* the dependency is moved by another client and reports its position
CvDepMoved ==
    /\ actuator = "ConvertStage"
    /\ \E pos_dep \in CvGrid :
        /\ cvDepPos' = pos_dep
        /\ cvPosition' = convertPosFromdep(cvConv, pos_dep, TRUE)
    /\ cvLast' = CvNoOp
    /\ idleStops' = 0
    /\ UNCHANGED <<cvMd, cvConv, cvOthers>>

CvNext ==
    \/ CvUpdateMetadata
    \/ CvMoveAbs
    \/ CvMoveRel
    \/ CvDepMoved

SpecConv == CvInit /\ [][CvNext]_vars

\* ---------------------------------------------------------------------
\* CombinedFixedPositionActuator
\* ---------------------------------------------------------------------

\* __init__: the position VAs of the dependencies are subscribed with init=True,
\* with both dependency axes at their origin
CfInit ==
    /\ actuator = "CombinedFixedPositionActuator"
    /\ idleStops = 0
    /\ cfCfg \in CfConfigs
    /\ cfRaw = <<0, 0>>
    /\ cfPosition = updatePosition(cfCfg, cfRaw)
    /\ CfFresh
    /\ AbIdle
    /\ MxIdle
    /\ CyIdle
    /\ CvIdle
    /\ CpIdle
    /\ CsIdle
    /\ DrIdle
    /\ LnIdle
    /\ AcIdle
    /\ MnIdle
    /\ SpIdle
    /\ RmIdle

\* a dependency reports a new position of its axis: _updatePosition, when it
\* is subscribed to the position VA of that dependency
CfDepMoved(i) ==
    /\ actuator = "CombinedFixedPositionActuator"
    /\ \E v \in CfRawPositions :
        /\ v # cfRaw[i]
        /\ cfRaw' = [cfRaw EXCEPT ![i] = v]
        /\ cfPosition' = IF i \in cfSubs THEN updatePosition(cfCfg, [cfRaw EXCEPT ![i] = v])
                         ELSE cfPosition
    /\ idleStops' = 0
    /\ UNCHANGED <<cfCfg, cfBody, cfOthers>>

CfNext == \E i \in 1..2 : CfDepMoved(i)

SpecCFP == CfInit /\ [][CfNext]_vars

\* moveAbs: _checkMoveAbs (the choices of the axis are the keys of the table
\* and the fallback), then the fallback is refused, then the body is submitted
combined_moveAbs(cfg, key) ==
    IF key \notin CfKeys(cfg) \cup {cfg.fallback} THEN "ValueError"
    ELSE IF key = cfg.fallback THEN "ValueError"
    ELSE "submitted"

\* moveAbs to a choice of the axis, with the worker of the executor free: the
\* request is refused, or _doMoveAbs starts, the callback is unsubscribed and
\* one moveAbs is issued to each dependency
CfMoveAbs ==
    /\ actuator = "CombinedFixedPositionActuator"
    /\ cfTask = CfNoTask
    /\ \E key \in CfKeys(cfCfg) \cup {cfCfg.fallback} :
        IF combined_moveAbs(cfCfg, key) = "submitted"
        THEN /\ cfTask' = [op |-> "moveAbs", key |-> key, pending |-> CfDeps, failed |-> {},
                           nested |-> FALSE]
             /\ cfSubs' = unsubscribe_all(cfSubs)
             /\ cfLast' = cfLast
        ELSE /\ cfLast' = [op |-> "moveAbs", result |-> combined_moveAbs(cfCfg, key),
                           moved |-> FALSE]
             /\ UNCHANGED <<cfTask, cfSubs>>
    /\ idleStops' = 0
    /\ UNCHANGED <<cfCfg, cfRaw, cfPosition, cfOthers>>

\* reference, with the worker of the executor free: _doReference starts, the
\* callback is unsubscribed and one reference is issued to each dependency
CfReference ==
    /\ actuator = "CombinedFixedPositionActuator"
    /\ cfTask = CfNoTask
    /\ cfTask' = [op |-> "reference", key |-> "none", pending |-> CfDeps, failed |-> {},
                  nested |-> FALSE]
    /\ cfSubs' = unsubscribe_all(cfSubs)
    /\ idleStops' = 0
    /\ UNCHANGED <<cfCfg, cfRaw, cfPosition, cfLast, cfOthers>>

\* the call of the body to dependency i ends: a move that succeeds leaves the
\* axis at its target, a referencing at one of the reference positions
CfDepDone(i) ==
    /\ actuator = "CombinedFixedPositionActuator"
    /\ i \in cfTask.pending
    /\ \E ok \in BOOLEAN :
        /\ cfTask' = [cfTask EXCEPT !.pending = @ \ {i},
                                    !.failed = IF ok THEN @ ELSE @ \cup {i}]
        /\ IF ~ok THEN cfRaw' = cfRaw
           ELSE IF cfTask.op = "moveAbs"
           THEN cfRaw' = [cfRaw EXCEPT ![i] = CfTarget(cfCfg, cfTask.key)[i]]
           ELSE \E v \in CfRefPositions : cfRaw' = [cfRaw EXCEPT ![i] = v]
    /\ cfPosition' = IF i \in cfSubs THEN updatePosition(cfCfg, cfRaw') ELSE cfPosition
    /\ idleStops' = 0
    /\ UNCHANGED <<cfCfg, cfSubs, cfLast, cfOthers>>

\* a loop that would stop waiting at the first future that raised
futures_waited_until_failure(pending, failed) == pending = {} \/ failed # {}

\* _doMoveAbs, "for f in futures_dependencies: try: f.result() except ...":
\* every future is waited for, the exceptions are kept
futures_waited(pending, failed) == pending = {}

\* _doMoveAbs, once both futures have ended: _updatePosition, the first
\* exception is raised, and the callback is subscribed again (finally); the
\* _doReference that called it ends with it
CfMoveEnd ==
    /\ actuator = "CombinedFixedPositionActuator"
    /\ cfTask.op = "moveAbs" /\ futures_waited(cfTask.pending, cfTask.failed)
    /\ cfPosition' = updatePosition(cfCfg, cfRaw)
    /\ cfSubs' = subscribe_all(cfSubs)
    /\ cfLast' = [op |-> IF cfTask.nested THEN "reference" ELSE "moveAbs",
                  result |-> IF cfTask.failed = {} THEN "ok" ELSE "error", moved |-> TRUE]
    /\ cfTask' = CfNoTask
    /\ idleStops' = 0
    /\ UNCHANGED <<cfCfg, cfRaw, cfOthers>>

\* _doReference, once the futures have been waited for, in the order of the
\* dependencies and up to the first that failed: on a failure the body ends;
\* at a position of the table it ends too; elsewhere it calls _doMoveAbs to
\* the closest entry
CfRefEnd ==
    /\ actuator = "CombinedFixedPositionActuator"
    /\ cfTask.op = "reference"
    /\ 1 \notin cfTask.pending
    /\ 1 \in cfTask.failed \/ 2 \notin cfTask.pending
    /\ IF cfTask.failed = {} /\ readPositionfromDependencies(cfCfg, cfRaw, 1) = "LookupError"
       THEN /\ cfTask' = [op |-> "moveAbs", key |-> reference_closest(cfCfg, cfRaw),
                          pending |-> CfDeps, failed |-> {}, nested |-> TRUE]
            /\ cfSubs' = unsubscribe_all(cfSubs)
            /\ cfLast' = cfLast
       ELSE /\ cfTask' = CfNoTask
            /\ cfSubs' = subscribe_all(cfSubs)
            /\ cfLast' = [op |-> "reference",
                          result |-> IF cfTask.failed = {} THEN "ok" ELSE "error",
                          moved |-> FALSE]
    /\ idleStops' = 0
    /\ UNCHANGED <<cfCfg, cfRaw, cfPosition, cfOthers>>

CfBodyNext ==
    \/ CfMoveAbs
    \/ CfReference
    \/ \E i \in CfDeps : CfDepMoved(i)
    \/ \E i \in CfDeps : CfDepDone(i)
    \/ CfMoveEnd
    \/ CfRefEnd

\* the configurations the bodies are run with: one tolerance pair, no cycle
CfBodyConfigs ==
    {cfg \in CfConfigs : cfg.atol = <<1, 0>> /\ cfg.cycle = <<NoCycle, NoCycle>>}

CfBodyInit == CfInit /\ cfCfg \in CfBodyConfigs

SpecCFPBody == CfBodyInit /\ [][CfBodyNext]_vars

\* ---------------------------------------------------------------------
\* CoupledStage
\* ---------------------------------------------------------------------

\* __init__: the converter is created, the position is the one of the master
CpInit ==
    /\ actuator = "CoupledStage"
    /\ idleStops = 0
    /\ cpConv \in {updateConversion(md) : md \in CpMetadata}
    /\ cpMaster \in CpGrid
    /\ cpSlave = ZeroVector
    /\ cpPosition = cpMaster
    /\ cpQueue = <<>>
    /\ cpLast = CpNoBody
    /\ AbIdle
    /\ MxIdle
    /\ CyIdle
    /\ CvIdle
    /\ CfIdle
    /\ CsIdle
    /\ DrIdle
    /\ LnIdle
    /\ AcIdle
    /\ MnIdle
    /\ SpIdle
    /\ RmIdle

\* moveAbs: the body is queued
CpMoveAbs ==
    /\ actuator = "CoupledStage"
    /\ Len(cpQueue) < MaxCyQueue
    /\ \E pos \in CpGrid : cpQueue' = Append(cpQueue, [op |-> "moveAbs", arg |-> pos])
    /\ idleStops' = 0
    /\ UNCHANGED <<cpConv, cpMaster, cpSlave, cpPosition, cpLast, cpOthers>>

\* moveRel: the body is queued; an empty shift is a null move
CpMoveRel ==
    /\ actuator = "CoupledStage"
    /\ Len(cpQueue) < MaxCyQueue
    /\ \E shift \in CpShifts :
           cpQueue' = Append(cpQueue, [op |-> "moveRel", arg |-> shift])
    /\ idleStops' = 0
    /\ UNCHANGED <<cpConv, cpMaster, cpSlave, cpPosition, cpLast, cpOthers>>

\* the worker runs _doMoveAbs or _doMoveRel: the master move succeeds, or fails
\* with the master anywhere; then the slave move succeeds or fails
CpDoMove ==
    /\ actuator = "CoupledStage"
    /\ cpQueue # <<>>
    /\ LET req == Head(cpQueue)
           target == IF req.op = "moveAbs" THEN req.arg ELSE VAdd(cpMaster, req.arg)
       IN /\ target \in CpGrid
          /\ \E master_ok, slave_ok \in BOOLEAN : \E stopped_at \in CpGrid :
               LET mpos == IF master_ok THEN target ELSE stopped_at
                   r == coupled_doMove(cpConv, mpos, master_ok, slave_ok)
               IN /\ master_ok => stopped_at = target
                  /\ cpMaster' = mpos
                  /\ cpSlave' = IF slave_ok /\ r.slave_calls # <<>>
                                THEN r.slave_calls[Len(r.slave_calls)] ELSE cpSlave
                  /\ cpPosition' = IF r.updated THEN mpos ELSE cpPosition
                  /\ cpLast' = [op |-> req.op, target |-> target, master_ok |-> master_ok,
                                mpos |-> mpos, slave_calls |-> r.slave_calls,
                                slave_ok |-> slave_ok, result |-> r.result]
    /\ cpQueue' = Tail(cpQueue)
    /\ idleStops' = 0
    /\ UNCHANGED <<cpConv, cpOthers>>

CpIsIdle == cpQueue = <<>>

\* stop: the queue of the executor is emptied, master and converter are stopped
CpStop ==
    /\ actuator = "CoupledStage"
    /\ cpQueue' = <<>>
    /\ idleStops' = StopsAfter(CpIsIdle)
    /\ UNCHANGED <<cpConv, cpMaster, cpSlave, cpPosition, cpLast, cpOthers>>

CpNext ==
    \/ CpMoveAbs
    \/ CpMoveRel
    \/ CpDoMove
    \/ CpStop

SpecCoupled == CpInit /\ [][CpNext]_vars

\* ---------------------------------------------------------------------
\* CombinedSensorActuator
\* ---------------------------------------------------------------------

\* __init__: no compensation yet, the position is read from the sensor
CsInit ==
    /\ actuator = "CombinedSensorActuator"
    /\ idleStops = 0
    /\ csPosShift = Whole(0)
    /\ csDepPos \in CsPositions
    /\ csSensor = to_sensor(csDepPos)
    /\ csPosition = csDepPos
    /\ csQueue = <<>>
    /\ csReqs = 0
    /\ csLast = CsNoBody
    /\ csDone = <<>>
    /\ csStopped = {}
    /\ AbIdle
    /\ MxIdle
    /\ CyIdle
    /\ CvIdle
    /\ CfIdle
    /\ CpIdle
    /\ DrIdle
    /\ LnIdle
    /\ AcIdle
    /\ MnIdle
    /\ SpIdle
    /\ RmIdle

\* moveAbs: the body is queued
CsMoveAbs ==
    /\ actuator = "CombinedSensorActuator"
    /\ csReqs < MaxCsReq
    /\ \E p \in CsPositions :
           csQueue' = Append(csQueue, [op |-> "moveAbs", arg |-> p, id |-> csReqs + 1])
    /\ csReqs' = csReqs + 1
    /\ idleStops' = 0
    /\ UNCHANGED <<csPosShift, csDepPos, csSensor, csPosition, csLast, csDone, csStopped,
                   csOthers>>

\* the worker runs _doMoveAbs; the sensor ends at the expected position, or
\* at another one
CsDoMoveAbs ==
    /\ actuator = "CombinedSensorActuator"
    /\ csQueue # <<>>
    /\ \E mismatches \in CsMismatches : \E abs_ok, rel_ok \in BOOLEAN :
       \E other \in CsSensorValues \ {to_sensor(Head(csQueue).arg)} :
        LET p == Head(csQueue).arg
            r == sensor_doMoveAbs(p, csPosShift, csDepPos, mismatches, abs_ok, rel_ok)
            done == IF r.last_failed THEN SubSeq(r.calls, 1, Len(r.calls) - 1) ELSE r.calls
            spos == IF r.matched THEN to_sensor(p) ELSE other
        IN /\ ~abs_ok => mismatches = 0 /\ rel_ok
           /\ ~rel_ok => r.last_failed
           /\ csPosShift' = r.pos_shift
           /\ csDepPos' = CsDepAfter(csDepPos, done)
           /\ csSensor' = spos
           /\ csPosition' = sensor_updatePosition(spos, csPosition)
           /\ csLast' = [op |-> "moveAbs", p |-> p, p_cor |-> FAdd(p, csPosShift),
                         calls |-> r.calls, result |-> r.result]
           /\ csDone' = Append(csDone, [id |-> Head(csQueue).id, how |-> r.result])
           /\ csQueue' = worker_next(r.result, csQueue)
    /\ idleStops' = 0
    /\ UNCHANGED <<csReqs, csStopped, csOthers>>

CsIsIdle == csQueue = <<>>

\* stop: the dependency actuator is stopped; the queue of the executor stays
CsStop ==
    /\ actuator = "CombinedSensorActuator"
    /\ csStopped' = csStopped \cup {csQueue[k].id : k \in DOMAIN csQueue}
    /\ idleStops' = StopsAfter(CsIsIdle)
    /\ UNCHANGED <<csPosShift, csDepPos, csSensor, csPosition, csQueue, csReqs, csLast, csDone,
                   csOthers>>

CsNext ==
    \/ CsMoveAbs
    \/ CsDoMoveAbs
    \/ CsStop

SpecSensor == CsInit /\ [][CsNext]_vars

\* the worker thread of the executor runs the bodies that are queued
SpecSensorLive == CsInit /\ [][CsNext]_vars /\ WF_vars(CsDoMoveAbs)

\* ---------------------------------------------------------------------
\* LinearActuator
\* ---------------------------------------------------------------------

\* __init__: a dependency that is referenced is moved to where it is (the
\* first move counted); one that is not gets a reference queued, with
\* _on_referenced as done callback, and __init__ returns
LnInit ==
    /\ actuator = "LinearActuator"
    /\ idleStops = 0
    /\ lnPeriod \in LnPeriods
    /\ \E referenced \in BOOLEAN :
        IF referenced
        THEN /\ lnMoveNum = linear_doMove("moveAbs", 0, lnPeriod, "none").move_num
             /\ lnQueue = <<>>
             /\ lnInitRef = "none"
        ELSE /\ lnMoveNum = 0
             /\ lnQueue = << [op |-> "reference", init |-> TRUE, early |-> FALSE] >>
             /\ lnInitRef = "queued"
    /\ lnLast = LnNoBody
    /\ lnSince = 0
    /\ lnState = "ok"
    /\ AbIdle
    /\ MxIdle
    /\ CyIdle
    /\ CvIdle
    /\ CfIdle
    /\ CpIdle
    /\ CsIdle
    /\ DrIdle
    /\ AcIdle
    /\ MnIdle
    /\ SpIdle
    /\ RmIdle

\* moveRel, moveAbs: the body is queued
LnMove ==
    /\ actuator = "LinearActuator"
    /\ Len(lnQueue) < MaxLnQueue
    /\ \E op \in {"moveRel", "moveAbs"} :
           lnQueue' = Append(lnQueue, [op |-> op, init |-> FALSE,
                                       early |-> lnInitRef = "queued"])
    /\ idleStops' = 0
    /\ UNCHANGED <<lnPeriod, lnMoveNum, lnLast, lnSince, lnState, lnInitRef, lnOthers>>

\* reference: the body is queued
LnReference ==
    /\ actuator = "LinearActuator"
    /\ Len(lnQueue) < MaxLnQueue
    /\ lnQueue' = Append(lnQueue, [op |-> "reference", init |-> FALSE,
                                   early |-> lnInitRef = "queued"])
    /\ idleStops' = 0
    /\ UNCHANGED <<lnPeriod, lnMoveNum, lnLast, lnSince, lnState, lnInitRef, lnOthers>>

\* the worker runs _doMoveRel or _doMoveAbs
LnDoMove ==
    /\ actuator = "LinearActuator"
    /\ lnQueue # <<>> /\ Head(lnQueue).op \in {"moveRel", "moveAbs"}
    /\ \E fail \in LnFailures :
        LET h == Head(lnQueue)
            r == linear_doMove(h.op, lnMoveNum, lnPeriod, fail)
        IN /\ fail # "none" => r.result = "error"
           /\ r.move_num <= LnCap
           /\ lnMoveNum' = r.move_num
           /\ lnSince' = LnSinceAfter(lnSince, r.calls, r.result = "error")
           /\ lnLast' = [op |-> h.op, init |-> h.init, early |-> h.early,
                         calls |-> r.calls, result |-> r.result, stopped |-> FALSE]
    /\ lnQueue' = Tail(lnQueue)
    /\ idleStops' = 0
    /\ UNCHANGED <<lnPeriod, lnState, lnInitRef, lnOthers>>

\* the worker runs _doReference; the future of the reference of __init__
\* then calls _on_referenced
LnDoReference ==
    /\ actuator = "LinearActuator"
    /\ lnQueue # <<>> /\ Head(lnQueue).op = "reference"
    /\ \E fail \in {"none", "reference"} :
        LET h == Head(lnQueue)
            r == linear_doReference(lnMoveNum, fail)
            cb == IF h.init THEN on_referenced(r.result, lnState)
                  ELSE [state |-> lnState, stopped |-> FALSE]
        IN /\ lnMoveNum' = r.move_num
           /\ lnSince' = LnSinceAfter(lnSince, r.calls, r.result = "error")
           /\ lnState' = cb.state
           /\ lnInitRef' = IF ~h.init THEN lnInitRef
                           ELSE IF r.result = "ok" THEN "ok" ELSE "failed"
           /\ lnLast' = [op |-> "reference", init |-> h.init, early |-> h.early,
                         calls |-> r.calls, result |-> r.result, stopped |-> cb.stopped]
    /\ lnQueue' = Tail(lnQueue)
    /\ idleStops' = 0
    /\ UNCHANGED <<lnPeriod, lnOthers>>

LnIsIdle == lnQueue = <<>>

\* stop: the dependency axis is stopped (it is not moving); the executor
\* queue is left as it is
LnStop ==
    /\ actuator = "LinearActuator"
    /\ idleStops' = StopsAfter(LnIsIdle)
    /\ UNCHANGED <<lnVars, lnOthers>>

LnNext ==
    \/ LnMove
    \/ LnReference
    \/ LnDoMove
    \/ LnDoReference
    \/ LnStop

SpecLinear == LnInit /\ [][LnNext]_vars

\* ---------------------------------------------------------------------
\* AntiBacklashActuator: construction
\* ---------------------------------------------------------------------

AcInit ==
    /\ actuator = "AntiBacklashActuator.__init__"
    /\ idleStops = 0
    /\ acBacklash \in AcBacklashes
    /\ acAxes \in AcAxisSets
    /\ acResult = AcPending
    /\ AbIdle
    /\ MxIdle
    /\ CyIdle
    /\ CvIdle
    /\ CfIdle
    /\ CpIdle
    /\ CsIdle
    /\ DrIdle
    /\ LnIdle
    /\ MnIdle
    /\ SpIdle
    /\ RmIdle

AcConstruct ==
    /\ actuator = "AntiBacklashActuator.__init__"
    /\ acResult = AcPending
    /\ acResult' = AntiBacklashActuator_init(acBacklash, acAxes)
    /\ idleStops' = 0
    /\ UNCHANGED <<acBacklash, acAxes, acOthers>>

AcNext == AcConstruct

SpecConstruct == AcInit /\ [][AcNext]_vars

\* ---------------------------------------------------------------------
\* The discrete-position actuators, with clients that call moveAbs and moveRel
\* ---------------------------------------------------------------------

\* what a moveRel leaves alone: every actuator, its queue and its dependencies
drOthers == <<actuator, abVars, mxVars, cyVars, cvVars, cfVars, cpVars, csVars, lnVars, acVars, mnVars, spVars, rmVars>>

\* FixedPositionsActuator.moveRel
FixMoveRel ==
    /\ IsFixed
    /\ \E shift \in DrShifts :
           drLast' = [op |-> "moveRel", shift |-> shift,
                      result |-> discrete_moveRel(shift, {axis_name}, TRUE)]
    /\ idleStops' = 0
    /\ UNCHANGED drOthers

\* CombinedSensorActuator.moveRel
CsMoveRel ==
    /\ actuator = "CombinedSensorActuator"
    /\ \E shift \in DrShifts :
           drLast' = [op |-> "moveRel", shift |-> shift,
                      result |-> discrete_moveRel(shift, {axis_name}, TRUE)]
    /\ idleStops' = 0
    /\ UNCHANGED drOthers

\* CombinedFixedPositionActuator.moveRel
CfMoveRel ==
    /\ actuator = "CombinedFixedPositionActuator"
    /\ \E shift \in DrShifts :
           drLast' = [op |-> "moveRel", shift |-> shift,
                      result |-> discrete_moveRel(shift, {axis_name}, FALSE)]
    /\ idleStops' = 0
    /\ UNCHANGED drOthers

DrInit == (CyInit /\ IsFixed) \/ CsInit \/ CfInit

DrNext ==
    \/ CyMoveAbs
    \/ FixDoMoveAbs
    \/ FixMoveRel
    \/ CsMoveAbs
    \/ CsDoMoveAbs
    \/ CsMoveRel
    \/ \E i \in 1..2 : CfDepMoved(i)
    \/ CfMoveRel

SpecDiscrete == DrInit /\ [][DrNext]_vars

\* ---------------------------------------------------------------------
\* Any of the actuators above, with clients that move, reference and stop
\* ---------------------------------------------------------------------
AnyInit == AbInit \/ MxInit \/ CyInit

AnyNext == AbStopNext \/ MxNext \/ CyNext

SpecStop == AnyInit /\ [][AnyNext]_vars

\* ---------------------------------------------------------------------
\* MultiplexActuator: the callbacks of the position, speed and referenced VAs
\* of the dependencies
\* ---------------------------------------------------------------------

\* a callback that would write the value of its dependency axis to every axis
update_per_axis_whole(cur, a, value) ==
    [b \in DOMAIN cur |->
        IF axis_to_dep[a].axis \in DOMAIN value THEN value[axis_to_dep[a].axis] ELSE cur[b]]

\* update_speed_per_dep, update_ref_per_dep: one callback per axis, which
\* takes the value of its dependency axis (KeyError: the axis stays as it is)
update_per_axis(cur, a, value) ==
    IF axis_to_dep[a].axis \in DOMAIN value
    THEN [cur EXCEPT ![a] = value[axis_to_dep[a].axis]]
    ELSE cur

\* what a dependency reports: a value for each of its axes, or for some only
MnValuesOf(d, range) ==
    UNION { [S -> range] : S \in SUBSET DepAxes(d) }

MnInit ==
    /\ actuator = "MultiplexActuator.notifications"
    /\ idleStops = 0
    /\ MnIdle
    /\ AbIdle
    /\ MxIdle
    /\ CyIdle
    /\ CvIdle
    /\ CfIdle
    /\ CpIdle
    /\ CsIdle
    /\ DrIdle
    /\ LnIdle
    /\ AcIdle
    /\ SpIdle
    /\ RmIdle

\* dependency d notifies its position: update_position_per_dep
MnPosition(d) ==
    /\ actuator = "MultiplexActuator.notifications"
    /\ \E value \in [DepAxes(d) -> 0..MaxMnValue] :
           mnPosition' = update_position_per_dep(mnPosition, d, value)
    /\ mnLast' = [va |-> "position", dep |-> d]
    /\ idleStops' = 0
    /\ UNCHANGED <<mnSpeed, mnReferenced, mnOthers>>

\* dependency d notifies its speed: the callback of one of its axes runs
MnSpeed(d) ==
    /\ actuator = "MultiplexActuator.notifications"
    /\ \E a \in dependencies_axes(d) \cap MnSpeedAxes :
       \E value \in MnValuesOf(d, 0..MaxMnValue) :
           mnSpeed' = update_per_axis(mnSpeed, a, value)
    /\ mnLast' = [va |-> "speed", dep |-> d]
    /\ idleStops' = 0
    /\ UNCHANGED <<mnPosition, mnReferenced, mnOthers>>

\* dependency d notifies its referenced VA: the callback of one of its axes runs
MnReferenced(d) ==
    /\ actuator = "MultiplexActuator.notifications"
    /\ \E a \in dependencies_axes(d) \cap MnRefAxes :
       \E value \in MnValuesOf(d, BOOLEAN) :
           mnReferenced' = update_per_axis(mnReferenced, a, value)
    /\ mnLast' = [va |-> "referenced", dep |-> d]
    /\ idleStops' = 0
    /\ UNCHANGED <<mnPosition, mnSpeed, mnOthers>>

MnNext ==
    \/ \E d \in Deps : MnPosition(d)
    \/ \E d \in Deps : MnSpeed(d)
    \/ \E d \in Deps : MnReferenced(d)

SpecMuxNotify == MnInit /\ [][MnNext]_vars

\* ---------------------------------------------------------------------
\* FixedPositionsActuator and RotationActuator: the axes stop() passes on
\* ---------------------------------------------------------------------

\* stop(): if axes is not None: axes = set(); if self._axis in axes:
\* axes.add(self._caxis); then self._dependency.stop(axes=axes)
stop_dependency_axes(call) ==
    IF call.none THEN [called |-> TRUE, none |-> TRUE, axes |-> {}]
    ELSE LET axes == {} IN
         [called |-> TRUE, none |-> FALSE,
          axes |-> IF call.axis \in axes THEN axes \cup {call.caxis} ELSE axes]

\* the calls: the actuator, its axis and the axis of the dependency, the
\* argument of stop()
SpCalls ==
    { c \in [cls : {"FixedPositionsActuator", "RotationActuator"}, axis : {"x", "rz"},
             caxis : {"a", "b"}, none : BOOLEAN, axes : SUBSET {"x", "rz", "other"}] :
        c.none => c.axes = {} }

SpInit ==
    /\ actuator = "stop(axes)"
    /\ idleStops = 0
    /\ spCall \in SpCalls
    /\ spAsked = SpNotAsked
    /\ AbIdle
    /\ MxIdle
    /\ CyIdle
    /\ CvIdle
    /\ CfIdle
    /\ CpIdle
    /\ CsIdle
    /\ DrIdle
    /\ LnIdle
    /\ AcIdle
    /\ MnIdle
    /\ RmIdle

SpStop ==
    /\ actuator = "stop(axes)"
    /\ ~spAsked.called
    /\ spAsked' = stop_dependency_axes(spCall)
    /\ UNCHANGED <<spCall, spOthers>>
    /\ idleStops' = 0

SpNext == SpStop

SpecStopAxes == SpInit /\ [][SpNext]_vars

\* ---------------------------------------------------------------------
\* RotationActuator: updateMetadata
\* ---------------------------------------------------------------------

\* isinstance(value, numbers.Real) and (0 <= abs(value) <= self._cycle/2)
md_value_allowed(value, cycle) == value.real /\ 2 * Abs(value.v) <= cycle

\* Component.updateMetadata(md): self._metadata.update(md), md as the sequence
\* of its items
Component_updateMetadata(metadata, md) ==
    [k \in DOMAIN metadata |->
        IF \E i \in DOMAIN md : md[i].key = k
        THEN (CHOOSE x \in Range(md) : x.key = k).value
        ELSE metadata[k]]

\* _updatePosition: dependency position - MD_POS_COR, modulo the cycle; the
\* subtraction raises a TypeError on a correction that is not a number
rotation_updatePosition(st, cycle) ==
    IF st.metadata["POS_COR"].real
    THEN [st EXCEPT !.position = (st.dep - st.metadata["POS_COR"].v) % cycle]
    ELSE [st EXCEPT !.error = "TypeError"]

\* updateMetadata, from the i-th item of md on: an allowed item stores the
\* whole of md and updates the position, another one raises
RECURSIVE rotation_updateMetadata(_, _, _, _)
rotation_updateMetadata(md, i, st, cycle) ==
    IF i > Len(md) \/ st.error # "none" THEN st
    ELSE IF md_value_allowed(md[i].value, cycle)
    THEN rotation_updateMetadata(md, i + 1,
             rotation_updatePosition(
                 [st EXCEPT !.metadata = Component_updateMetadata(st.metadata, md)], cycle),
             cycle)
    ELSE [st EXCEPT !.error = "ValueError"]

\* the values of the mappings: allowed, too large, not a number
RmValues == {RealValue(1), RealValue(MaxCycle), NotReal}

\* the mappings updateMetadata is called with, as the sequence of their items
RmMappings ==
    { << [key |-> k, value |-> v] >> : k \in RmKeys, v \in RmValues }
    \cup { md \in { << [key |-> k1, value |-> v1], [key |-> k2, value |-> v2] >> :
                        k1 \in RmKeys, k2 \in RmKeys, v1 \in RmValues, v2 \in RmValues } :
             md[1].key # md[2].key }

RmInit ==
    /\ actuator = "RotationActuator.updateMetadata"
    /\ idleStops = 0
    /\ rmCycle \in Cycles
    /\ rmMetadata = RmDefaultMd
    /\ rmDep \in {0, 1}
    /\ rmPosition = rmDep
    /\ rmLast = RmNoCall
    /\ AbIdle
    /\ MxIdle
    /\ CyIdle
    /\ CvIdle
    /\ CfIdle
    /\ CpIdle
    /\ CsIdle
    /\ DrIdle
    /\ LnIdle
    /\ AcIdle
    /\ MnIdle
    /\ SpIdle

RmUpdateMetadata ==
    /\ actuator = "RotationActuator.updateMetadata"
    /\ \E md \in RmMappings :
        LET st == rotation_updateMetadata(md, 1,
                      [metadata |-> rmMetadata, dep |-> rmDep, position |-> rmPosition,
                       error |-> "none"], rmCycle)
        IN /\ rmMetadata' = st.metadata
           /\ rmPosition' = st.position
           /\ rmLast' = [md |-> md, error |-> st.error]
    /\ UNCHANGED <<rmCycle, rmDep, rmOthers>>
    /\ idleStops' = 0

RmNext == RmUpdateMetadata

SpecRotMd == RmInit /\ [][RmNext]_vars

\* ------------------------------------------- AntiBacklashActuator: claims
Resolved == {abDone[i].id : i \in DOMAIN abDone}

HowOf(id) == (CHOOSE i \in DOMAIN abDone : abDone[i].id = id)

CallsOf(id) == SelectSeq(depCalls, LAMBDA c : c.req = id)

Mains == {i \in DOMAIN depCalls : depCalls[i].tag = "main"}

Comps == {i \in DOMAIN depCalls : depCalls[i].tag = "comp"}

MainOf(id) == depCalls[CHOOSE i \in Mains : depCalls[i].req = id]

Running == {w \in Workers : abTask[w] # NoTask}

\* the axes of request rq moved against their backlash by a relative move
Against(rq) ==
    {a \in DOMAIN rq.mv \cap DOMAIN abBacklash : rq.mv[a] * abBacklash[a] < 0}

\* a relative move that goes, on every axis, in the direction of the backlash
WithBacklash(rq) ==
    /\ rq.kind = "rel"
    /\ \A a \in DOMAIN rq.mv : a \in DOMAIN abBacklash /\ rq.mv[a] * abBacklash[a] > 0

\* C1: at most one task body runs at a time, and the bodies start and the
\* futures resolve in the order of submission.
C1_Serialized ==
    /\ Cardinality(Running) <= 1
    /\ \A i, j \in Mains : i < j => depCalls[i].req < depCalls[j].req
    /\ \A i, j \in DOMAIN abDone : i < j => abDone[i].id < abDone[j].id
    /\ \A i \in Mains : \A id \in 1..(depCalls[i].req - 1) : id \in Resolved

C1_Witness ==
    /\ Len(abDone) >= 2
    /\ Running # {}
    /\ abQueue = <<>>
    /\ Len(abSubmitted) = 3

\* C3 as stated: a resolved moveRel in the direction of the backlash has
\* issued exactly one dependency move, whatever the moves before it.
C3_Original ==
    \A id \in Resolved :
        WithBacklash(abSubmitted[id]) => Len(CallsOf(id)) = 1

\* C3 amended: a moveRel in the direction of the backlash, started while none
\* of its axes is marked shifted, issues exactly one dependency move and no
\* compensation move.
C3_NoCompWhenUnshifted ==
    \A i \in Mains :
        LET id == depCalls[i].req IN
        (WithBacklash(abSubmitted[id])
            /\ \A a \in DOMAIN abSubmitted[id].mv : ~depCalls[i].pre[a])
        => /\ \A k \in Comps : depCalls[k].req # id
           /\ depCalls[i].mv = abSubmitted[id].mv
           /\ id \in Resolved => Len(CallsOf(id)) = 1

C3_Witness ==
    \E id \in Resolved :
        /\ WithBacklash(abSubmitted[id])
        /\ abDone[HowOf(id)].how = "ok"
        /\ \A a \in DOMAIN abSubmitted[id].mv : ~MainOf(id).pre[a]
        /\ Len(CallsOf(id)) = 1

\* C4: a moveRel against the backlash of an unshifted axis sends v - b, marks
\* the axis shifted, and once that move has ended sends +b and clears the
\* mark; the future resolves after the compensation move.
C4_OvershootThenCompensate ==
    /\ \A i \in Mains :
        LET rq == abSubmitted[depCalls[i].req] IN
        rq.kind = "rel" =>
            \A a \in Against(rq) :
                ~depCalls[i].pre[a] => depCalls[i].mv[a] = rq.mv[a] - abBacklash[a]
    /\ \A w \in Running :
        LET rq == abSubmitted[abTask[w].id] IN
        /\ (rq.kind = "rel" /\ abTask[w].pc \in {"poll", "sync"})
                => \A a \in Against(rq) : abShifted[a]
        /\ abTask[w].pc = "comp" => \A a \in DOMAIN rq.mv : ~abShifted[a]
    /\ \A k \in Comps : MainOf(depCalls[k].req).st = "done"
    /\ \A id \in Resolved :
        LET rq == abSubmitted[id] IN
        (rq.kind = "rel" /\ Against(rq) # {} /\ abDone[HowOf(id)].how = "ok")
        => /\ Len(CallsOf(id)) = 2
           /\ CallsOf(id)[2].tag = "comp"
           /\ CallsOf(id)[2].kind = "rel"
           /\ CallsOf(id)[2].st = "done"
           /\ \A a \in Against(rq) : CallsOf(id)[2].mv[a] = abBacklash[a]

C4_Witness ==
    \E id \in Resolved :
        LET rq == abSubmitted[id] IN
        /\ rq.kind = "rel" /\ Against(rq) # {}
        /\ abDone[HowOf(id)].how = "ok"
        /\ \A a \in Against(rq) : ~MainOf(id).pre[a]
        /\ Len(CallsOf(id)) = 2
        /\ \A a \in DOMAIN rq.mv : ~abShifted[a]

\* the axes of the request of main call c that the move left marked shifted
MarkedBy(c) ==
    LET rq == abSubmitted[c.req] IN
    {a \in DOMAIN rq.mv \cap DOMAIN abBacklash :
        IF rq.kind = "rel" THEN c.pre[a] \/ rq.mv[a] * abBacklash[a] < 0
        ELSE c.mv[a] # rq.mv[a]}

\* C5: a body ends without its compensation only when the request queued
\* right behind it is an update move of all its axes; then no compensation
\* move is issued for it, its axes stay marked shifted, and a relative move
\* on an axis already marked does not add the overshoot again.
C5_SkipOnlyBeforeUpdate ==
    /\ \A i \in DOMAIN abDone :
        abDone[i].how = "early" =>
            LET id == abDone[i].id IN
            /\ id < Len(abSubmitted)
            /\ abSubmitted[id + 1].upd
            /\ DOMAIN abSubmitted[id].mv \subseteq DOMAIN abSubmitted[id + 1].mv
            /\ \A k \in Comps : depCalls[k].req # id
            /\ (Running = {} /\ abQueue # <<>> /\ Head(abQueue) = id + 1)
                    => \A a \in MarkedBy(MainOf(id)) : abShifted[a]
    /\ \A i \in Mains :
        LET rq == abSubmitted[depCalls[i].req] IN
        rq.kind = "rel" =>
            \A a \in Against(rq) : depCalls[i].pre[a] => depCalls[i].mv[a] = rq.mv[a]

C5_Witness ==
    \E i \in DOMAIN abDone :
        /\ abDone[i].how = "early"
        /\ MarkedBy(MainOf(abDone[i].id)) # {}
        /\ (abDone[i].id + 1) \in Resolved
        /\ abSubmitted[abDone[i].id + 1].kind = "rel"
        /\ \E a \in Against(abSubmitted[abDone[i].id + 1]) :
               MainOf(abDone[i].id + 1).pre[a]

\* the displacement of axis a by dependency call c, made from position pos
AbMotion(c, pos, a) ==
    IF a \notin DOMAIN c.mv THEN 0
    ELSE IF c.kind = "rel" THEN c.mv[a]
    ELSE c.mv[a] - pos[a]

\* the last displacement of each axis (0: none yet) by the dependency calls
\* from the kth on that were carried out, from position pos
RECURSIVE AbLastMotion(_, _, _)
AbLastMotion(k, pos, last) ==
    IF k > Len(depCalls) THEN last
    ELSE IF depCalls[k].st # "done" THEN AbLastMotion(k + 1, pos, last)
    ELSE AbLastMotion(k + 1, ApplyCall(pos, depCalls[k]),
             [a \in Axes |-> IF AbMotion(depCalls[k], pos, a) # 0
                             THEN AbMotion(depCalls[k], pos, a) ELSE last[a]])

\* C30, as stated: once the queue of the executor has drained, with no body
\* running, the last motion the dependency made on each axis with a non-zero
\* backlash was in the direction of the backlash.
C30_Original ==
    (AbIsIdle /\ Pending(depCalls) = {}) =>
        \A a \in DOMAIN abBacklash :
            abBacklash[a] # 0 =>
                AbLastMotion(1, [b \in Axes |-> 0], [b \in Axes |-> 0])[a] * abBacklash[a] >= 0

\* the displacement commanded to the dependency on an axis, by the calls up
\* to the k-th
RECURSIVE AbCommanded(_, _)
AbCommanded(k, a) ==
    IF k = 0 THEN 0
    ELSE AbCommanded(k - 1, a)
         + (IF a \in DOMAIN depCalls[k].mv THEN depCalls[k].mv[a] ELSE 0)

\* the displacement asked by the clients on an axis, by the requests up to the
\* id-th whose body has started
RECURSIVE AbRequested(_, _)
AbRequested(id, a) ==
    IF id = 0 THEN 0
    ELSE AbRequested(id - 1, a)
         + (IF id \notin Range(abQueue) /\ a \in DOMAIN abSubmitted[id].mv
            THEN abSubmitted[id].mv[a] ELSE 0)

AbOnlyMoveRel == \A id \in DOMAIN abSubmitted : abSubmitted[id].kind = "rel"

\* C37: with moveRel requests only, all successful: the displacement commanded
\* to the dependency on an axis is the sum of the shifts of the requests
\* started, minus the backlash if the axis is marked shifted; once the queue
\* has drained no axis is marked shifted, and the two sums are equal.
C37_DisplacementConserved ==
    AbOnlyMoveRel =>
        /\ \A a \in Axes :
              AbCommanded(Len(depCalls), a) =
                  AbRequested(Len(abSubmitted), a)
                  - (IF abShifted[a] /\ a \in DOMAIN abBacklash THEN abBacklash[a] ELSE 0)
        /\ AbIsIdle =>
              \A a \in Axes :
                  /\ ~abShifted[a]
                  /\ AbCommanded(Len(depCalls), a) = AbRequested(Len(abSubmitted), a)

\* the queue has drained after three moveRel, one of which ended early
\* without its compensation, and a compensation move has been made
C37_Witness ==
    /\ AbOnlyMoveRel
    /\ AbIsIdle
    /\ Len(abSubmitted) = 3
    /\ \E k \in DOMAIN abDone : abDone[k].how = "early"
    /\ \E k \in DOMAIN depCalls : depCalls[k].tag = "comp"
    /\ \A a \in Axes : ~abShifted[a]

\* ------------------------------------------- MultiplexActuator: claims
MxAxesOf(id) == {mxSubmitted[id].mv[k].axis : k \in DOMAIN mxSubmitted[id].mv}

MxInvolved(id) == axesTodepAxes(MxAxesOf(id))

MxCallsTo(id, d) == {i \in DOMAIN mxCalls : mxCalls[i].req = id /\ mxCalls[i].dep = d}

\* the requests whose body has run and whose future is resolved
MxRan == {k \in DOMAIN mxDone : mxDone[k].how # "cancelled"}

\* one call per involved dependency, carrying only the axes of that dependency
C2_OneCallPerDep ==
    \A k \in MxRan :
        LET id == mxDone[k].id IN
        /\ \A d \in MxInvolved(id) :
            /\ Cardinality(MxCallsTo(id, d)) = 1
            /\ \A i \in MxCallsTo(id, d) :
                   DOMAIN mxCalls[i].mv =
                       {axis_to_dep[a].axis : a \in MxAxesOf(id) \cap dependencies_axes(d)}
        /\ \A d \in Deps \ MxInvolved(id) : MxCallsTo(id, d) = {}

\* C2: a move over several dependencies issues exactly one call to each
\* involved dependency, carrying only its axes, and its future is resolved,
\* with success or with an error, only once all these calls have ended.
C2_Original ==
    /\ C2_OneCallPerDep
    /\ \A k \in MxRan :
           Cardinality(MxInvolved(mxDone[k].id)) > 1 => mxDone[k].open = {}

\* the snapshot before the k-th one
MxPrev(k) == IF k = 1 THEN [a \in MxAxes |-> 0] ELSE mxStream[k - 1].pos

\* what call c makes of the position pos of our axis a
MxAfter(c, pos, a) ==
    LET ca == axis_to_dep[a].axis IN
    IF axis_to_dep[a].dep # c.dep \/ ca \notin DOMAIN c.mv THEN pos[a]
    ELSE IF c.kind = "rel" THEN pos[a] + c.mv[ca] ELSE c.mv[ca]

\* the k-th snapshot is published while the move it belongs to is executing,
\* shows the move of one dependency, and not yet the move of another one
MxMixed(k) ==
    LET e == mxStream[k] IN
    /\ e.during = mxCalls[e.call].req
    /\ e.pos # MxPrev(k)
    /\ \E j \in e.open : \E a \in MxAxes : MxAfter(mxCalls[j], e.pos, a) # e.pos[a]

\* the snapshots come in the order the moves were submitted
MxInOrder ==
    \A k, l \in DOMAIN mxStream :
        k < l => mxCalls[mxStream[k].call].req <= mxCalls[mxStream[l].call].req

C27_Original ==
    \A k \in DOMAIN mxQueue : Cardinality(MxInvolved(mxQueue[k])) > 1

\* ------------------------------------------- cyclic actuators: claims
\* the move that the last moveAbs body issued to reach its target
CyFinalMove == cyLast.calls[Len(cyLast.calls)]

\* the target of the last moveAbs body, as a position of the dependency
CyTargetPos == cyLast.arg + cyCfg.cor

\* the body has referenced the axis on its way
CyRehomed == \E k \in DOMAIN cyLast.calls : cyLast.calls[k].call = "reference"

\* the move c leads to the target and is the shorter way round
CyShortest(c) ==
    /\ (c.arg - (CyTargetPos - c.from)) % cyCfg.cycle = 0
    /\ 2 * Abs(c.arg) <= cyCfg.cycle

\* what holds of the moves of the cyclic actuators: RotationActuator always
\* takes the shorter way, FixedPositionsActuator does unless it references
C6_ShortestUnlessFixedRehomes ==
    cyLast.op = "moveAbs" /\ ~(IsFixed /\ CyRehomed) => CyShortest(CyFinalMove)

\* C6: on the cyclic actuators, for every current position and every target
\* in [0, cycle), the relative move that moveAbs issues to reach the target is
\* congruent to target - current modulo cycle and is at most cycle/2 long.
C6_Original ==
    cyLast.op = "moveAbs" => CyShortest(CyFinalMove)

\* C11: for a cyclic FixedPositionsActuator, whenever the distance travelled by
\* the moves executed since the last reference (the sum of the magnitudes of
\* the relative moves issued to the dependency) exceeds one full cycle, the
\* next moveAbs calls the dependency's reference before it issues the
\* commanded move.
C11_Original ==
    [][ FixDoMoveAbs /\ cyTravel > cyCfg.cycle
            => \E k \in 1..(Len(cyLast'.calls) - 1) : cyLast'.calls[k].call = "reference"
      ]_vars

\* C12: a RotationActuator moveAbs whose shortest move takes the dependency
\* from one multiple of cycle to another, or which brings the move counter to
\* its threshold, moves to the reference-seek position, references, resets
\* the counter and only then moves to the target from the reference position;
\* any other moveAbs issues no reference and counts one more move.
C12_RehomeWhenPassingOrDue ==
    [][ RotDoMoveAbs =>
        LET target_pos == Head(cyQueue).arg + cyCfg.cor
            move == findShortestMove(target_pos, cyRaw, cyCfg.cycle)
            pass_ref == (cyRaw \div cyCfg.cycle) # ((cyRaw + move) \div cyCfg.cycle)
            due == cyMoveNum + 1 >= max_moves_before_ref
            calls == cyLast'.calls
        IN IF pass_ref \/ due
           THEN /\ Len(calls) = 3
                /\ calls[1].call = "moveRel" /\ calls[1].from = cyRaw
                /\ (calls[1].from + calls[1].arg - cyCfg.ref_start) % cyCfg.cycle = 0
                /\ calls[2].call = "reference"
                /\ calls[3].call = "moveRel" /\ calls[3].from = ReferencePos
                /\ (calls[3].from + calls[3].arg - target_pos) % cyCfg.cycle = 0
                /\ cyMoveNum' = 0
           ELSE /\ \A k \in DOMAIN calls : calls[k].call # "reference"
                /\ cyMoveNum' = cyMoveNum + 1
      ]_vars

\* a RotationActuator body has referenced because its shortest move passed a
\* multiple of the cycle
C12_Witness ==
    /\ IsRotation
    /\ cyLast.op = "moveAbs"
    /\ CyRehomed
    /\ cyMoveNum = 0
    /\ LET start == cyLast.calls[1].from
           move == findShortestMove(CyTargetPos, start, cyCfg.cycle)
       IN (start \div cyCfg.cycle) # ((start + move) \div cyCfg.cycle)

\* C28, as stated, for the FixedPositionsActuator and the RotationActuator:
\* the body of an explicit reference() leaves the drift counters (accumulated
\* travel, move counter) at zero.
C28_Original ==
    [][ CyDoReference => cyMoveSum' = 0 /\ cyMoveNum' = 0 ]_vars

\* C34: on a RotationActuator with any mounting offset, the exposed position
\* is the position of the dependency less the offset, modulo the cycle, within
\* [0, cycle); after a moveAbs(t), with or without a referencing on the way,
\* the exposed position is t modulo the cycle.
C34_OffsetFolded ==
    IsRotation =>
        /\ cyPosition = (cyRaw - cyCfg.cor) % cyCfg.cycle
        /\ cyPosition >= 0 /\ cyPosition < cyCfg.cycle
        /\ cyLast.op = "moveAbs" => cyPosition = cyLast.arg % cyCfg.cycle

\* a move that went through a referencing, with an offset, to a position
\* other than the one of the reference switch
C34_Witness ==
    /\ IsRotation
    /\ cyCfg.cor # 0
    /\ cyLast.op = "moveAbs" /\ Len(cyLast.calls) = 3
    /\ cyLast.arg # 0
    /\ cyPosition = cyLast.arg
    /\ cyRaw # cyPosition

\* C35: every value published on the position of a FixedPositionsActuator is
\* one of its positions, a nearest one to the last position received from the
\* dependency, modulo the cycle; while a move body runs the callback is not
\* subscribed and nothing is published, whatever the dependency reports.
C35_PublishedIsNearestKnown ==
    /\ [](IsFixed => cyPosition \in positions(cyCfg))
    /\ [](IsFixed /\ "position" \in cySubs =>
             \A q \in positions(cyCfg) :
                 Abs(cyPosition - (cyRaw % cyCfg.cycle)) <= Abs(q - (cyRaw % cyCfg.cycle)))
    /\ [][ "position" \notin cySubs /\ "position" \notin cySubs' => cyPosition' = cyPosition ]_vars
    /\ [][ FixMoveStart => "position" \notin cySubs' ]_vars

\* a move body runs and the dependency is at a position that is not known,
\* nearer to another known position than the one published
C35_Witness ==
    /\ IsFixed
    /\ "position" \notin cySubs
    /\ cyRaw % cyCfg.cycle \notin positions(cyCfg)
    /\ cyPosition # fixed_position(cyRaw, cyCfg)

\* C36: stop(axes) of a FixedPositionsActuator or a RotationActuator, with
\* axes containing the axis of the actuator, asks the dependency to stop the
\* axis it is bound to; stop(None) asks the dependency to stop all its axes.
C36_Original ==
    spAsked.called =>
        /\ (~spCall.none /\ spCall.axis \in spCall.axes) => spCall.caxis \in spAsked.axes
        /\ spCall.none => spAsked.none

\* C39: updateMetadata of a RotationActuator, called with a mapping in which
\* some value is not a real number within [-cycle/2, cycle/2], raises a
\* ValueError and leaves the metadata and the published position as they were,
\* whatever the other entries of the mapping are.
C39_Original ==
    [][ (RmUpdateMetadata
           /\ \E i \in DOMAIN rmLast'.md : ~md_value_allowed(rmLast'.md[i].value, rmCycle))
        => /\ rmLast'.error = "ValueError"
           /\ rmMetadata' = rmMetadata
           /\ rmPosition' = rmPosition ]_vars

\* ------------------------------------------- stop: claims
\* C8: stop() on an idle actuator (no body running, nothing queued) leaves
\* the position, the referenced status, the backlash flags, the drift
\* counters, the queue and the futures as they are; so does a second stop().
C8_StopIdleIsNoop ==
    [][ /\ AbStop /\ AbIsIdle
            => UNCHANGED <<depPos, abShifted, abQueue, abTask, abDone>>
        /\ \A axes \in MxStopAxes :
               MxStop(axes) /\ MxIsIdle
                   => UNCHANGED <<mxPosition, mxDepPos, mxQueue, mxTask, mxDone>>
        /\ CyStop /\ CyIsIdle
            => UNCHANGED <<cyPosition, cyRaw, cyReferenced, cyMoveSum, cyMoveNum, cyQueue>>
      ]_vars

\* a RotationActuator that has moved, with its move counter running, has
\* been stopped twice while idle
C8_Witness ==
    /\ IsRotation
    /\ CyIsIdle
    /\ cyLast.op = "moveAbs"
    /\ cyMoveNum > 0
    /\ idleStops >= 2

\* C17: after terminate() returns, none of the callbacks of the instance
\* remains subscribed to a position, speed or referenced notification of a
\* dependency (here on the RotationActuator and the FixedPositionsActuator).
C17_Original ==
    cyExecutor = "None" => cySubs = {}

\* ------------------------------------------- ConvertStage: claims
\* the vectors the round trips are tried on: the grid, and where the stage is
CvVectors == CvGrid \cup {cvDepPos, cvPosition}

\* C7: with any rotation, non-zero scales and translation, a dependency
\* position converted to the exposed frame and back is itself, and so is an
\* exposed position converted to the dependency frame and back; for absolute
\* conversions and for relative ones.
C7_RoundTrip ==
    \A v \in CvVectors : \A absolute \in BOOLEAN :
        /\ convertPosTodep(cvConv, convertPosFromdep(cvConv, v, absolute), absolute) = v
        /\ convertPosFromdep(cvConv, convertPosTodep(cvConv, v, absolute), absolute) = v

\* under a rotation that is not a multiple of a quarter turn, two different
\* scales and a translation, a moveAbs away from the origin has been converted
\* and reported back as requested
C7_Witness ==
    /\ cvMd.rotation.cos = Frac(3, 5)
    /\ cvMd.scale = << Whole(2), Frac(-1, 2) >>
    /\ cvMd.translation = << Whole(1), Whole(-2) >>
    /\ cvLast.op = "moveAbs"
    /\ cvLast.arg = << Whole(1), Whole(-1) >>
    /\ cvLast.sent # cvLast.arg
    /\ cvPosition = cvLast.arg

\* C19: when moveRel is called with an unknown axis, the error is raised to
\* the caller synchronously and no dependency call is issued (here on the
\* ConvertStage, whose axes are x and y).
C19_Original ==
    cvLast.op = "moveRel" /\ ~(cvLast.axes \subseteq {"x", "y"}) => cvLast.raised

\* ------------------------------------------- CombinedFixedPositionActuator: claims
\* the distance of axis i from the target of entry k
CfDist(k, i) ==
    LET cp == cfRaw[i]
        tp == cfCfg.positions[k].tp[i]
        cyl == cfCfg.cycle[i]
    IN IF cyl = NoCycle THEN Abs(cp - tp)
       ELSE Min2((cp - tp) % cyl, (tp - cp) % cyl)

\* the entries of the table that the dependencies are at, within the tolerances
CfMatches == {k \in DOMAIN cfCfg.positions : \A i \in 1..2 : CfDist(k, i) <= cfCfg.atol[i]}

\* C10: the reported position is the key of the first entry of the table that
\* every dependency axis is within its tolerance of (modulo the cycle on the
\* cyclic axes), and the fallback label when there is no such entry.
C10_FirstMatchOrFallback ==
    cfPosition =
        IF CfMatches = {} THEN cfCfg.fallback
        ELSE cfCfg.positions[CHOOSE k \in CfMatches : \A j \in CfMatches : k <= j].key

\* two entries match, the first one only through the modulo of a cyclic axis,
\* after a dependency has moved there
C10_Witness ==
    /\ Cardinality(CfMatches) >= 2
    /\ \E k \in CfMatches :
        /\ \A j \in CfMatches : k <= j
        /\ \E i \in 1..2 : Abs(cfRaw[i] - cfCfg.positions[k].tp[i]) > cfCfg.atol[i]
        /\ cfPosition = cfCfg.positions[k].key
    /\ cfRaw # <<0, 0>>

\* ------------------------------------------- CoupledStage: claims
CpMoved == cpLast.op \in {"moveAbs", "moveRel"}

\* the slave has been sent, once, to the position that the converter maps to
\* the position of the master after its move
CpSlaveFollows ==
    /\ Len(cpLast.slave_calls) = 1
    /\ cpLast.mpos = cpMaster
    /\ convertPosFromdep(cpConv, cpLast.slave_calls[1], TRUE) = cpMaster

\* C13 as stated: every master move issued by moveRel/moveAbs, whether it
\* succeeds or raises, is followed by an absolute move of the slave (through
\* the transform) to the position the master reports after its move; the
\* master's failure is still delivered on the request's future.
C13_Original ==
    CpMoved => /\ CpSlaveFollows
               /\ ~cpLast.master_ok => cpLast.result = "master error"

\* C13: every master move, whether it succeeds or raises, is followed by an
\* absolute move of the slave through the transform to the position the master
\* reports after its move; when the master move raised, the future of the
\* request fails, with the failure of the master unless the move of the slave
\* raised as well, and then with the failure of the slave.
C13_SlaveFollowsMaster ==
    CpMoved => /\ CpSlaveFollows
               /\ ~cpLast.master_ok => cpLast.result # "ok"
               /\ ~cpLast.master_ok /\ cpLast.slave_ok => cpLast.result = "master error"
               /\ ~cpLast.slave_ok => cpLast.result = "slave error"

\* the master move has failed short of its target, the slave has followed the
\* master there, and the future carries the failure of the master
C13_Witness ==
    /\ CpMoved
    /\ ~cpLast.master_ok /\ cpLast.slave_ok
    /\ cpLast.mpos # cpLast.target
    /\ cpSlave = convertPosTodep(cpConv, cpMaster, TRUE)
    /\ cpSlave # ZeroVector
    /\ cpLast.result = "master error"

\* C38: once a moveRel or moveAbs request of a CoupledStage has resolved,
\* with success or with an error, the position published equals the current
\* position of the master.
C38_Original == CpMoved => cpPosition = cpMaster

\* ------------------------------------------- CombinedSensorActuator: claims
\* the extra moves of the last body
CsExtraMoves == {k \in DOMAIN csLast.calls : csLast.calls[k].call = "moveRel"}

\* C14: a moveAbs future resolves successfully only when the sensor reports
\* the value mapped to the target position; on a mismatch the actuator issues
\* corrective relative moves one at a time, never more than 10 per request,
\* and if the sensor still mismatches when the attempts are exhausted the
\* future fails with an I/O error.
C14_Original ==
    csLast.op = "moveAbs" =>
        /\ csLast.result = "ok" => csSensor = to_sensor(csLast.p)
        /\ Cardinality(CsExtraMoves) <= max_retry
        /\ csSensor # to_sensor(csLast.p) => csLast.result \in {"IOError", "error"}

\* the requests of which the future is resolved
CsResolved == {csDone[k].id : k \in DOMAIN csDone}

\* C18: a body that fails in the worker resolves the future of its own
\* request only, with the failure, and leaves the requests queued behind it
\* in the queue; every request accepted is in the end run and resolved, and
\* the actuator accepts requests after a failure as before.
C18_FailureStaysOnItsFuture ==
    /\ [][ CsDoMoveAbs =>
              /\ csDone' = Append(csDone, [id |-> Head(csQueue).id, how |-> csLast'.result])
              /\ csQueue' = Tail(csQueue)
         ]_vars
    /\ [](csReqs < MaxCsReq => ENABLED CsMoveAbs)
    /\ \A id \in 1..MaxCsReq : (csReqs >= id) ~> (id \in CsResolved)

\* a request queued behind one that failed has been run and has succeeded
C18_Witness ==
    /\ Len(csDone) = 2
    /\ csDone[1].id = 1 /\ csDone[1].how \in {"IOError", "error"}
    /\ csDone[2].id = 2 /\ csDone[2].how = "ok"
    /\ csSensor = to_sensor(csLast.p)

\* C16: for every actuator variant that owns an executor, after stop()
\* returns, no request that was queued but not yet started at the time of the
\* call is ever started (here on the CombinedSensorActuator).
C16_Original ==
    csStopped \cap CsResolved = {}

\* C15: after moves whose corrective shifts accumulated a correction offset
\* s, every later moveAbs(p) commands the dependency actuator to the
\* corrected target p + s.
C15_Original ==
    csLast.op = "moveAbs" => csLast.calls[1] = CsMoveAbsCall(csLast.p_cor)

\* the last body gave up at the retry bound: every extra move allowed was made
CsGaveUp ==
    /\ csLast.op = "moveAbs" /\ csLast.result = "IOError"
    /\ Cardinality(CsExtraMoves) = max_retry - 1
    /\ csDepPos = FAdd(csLast.p, FMul(Whole(max_retry - 1), csLast.calls[2].arg))

\* C29: a move that fails because the retry bound is exceeded fails with an
\* I/O error on its own future and leaves the correction offset accumulated
\* by the earlier moves as it was; the worker goes on with the requests
\* queued behind it, and the actuator accepts and runs requests as before.
C29_OffsetKeptOnFailure ==
    /\ [][ CsDoMoveAbs /\ csLast'.result = "IOError" =>
              /\ csPosShift' = csPosShift
              /\ csDone' = Append(csDone, [id |-> Head(csQueue).id, how |-> "IOError"])
              /\ csQueue' = Tail(csQueue)
         ]_vars
    /\ [](csReqs < MaxCsReq => ENABLED CsMoveAbs)
    /\ [](csQueue # <<>> => ENABLED CsDoMoveAbs)

\* a first move succeeded after extra moves, which left a correction offset;
\* the second one gave up at the retry bound and the offset is still there
C29_Witness ==
    /\ Len(csDone) = 2
    /\ csDone[1].how = "ok" /\ csDone[2].how = "IOError"
    /\ CsGaveUp
    /\ csPosShift # Whole(0)

\* ------------------------------------------- discrete moveRel: claims
\* the actuator validates the shift before it rejects the relative move
DrChecksShift == actuator \in {"FixedPositionsActuator", "CombinedSensorActuator"}

\* C20, as stated: on the discrete-position actuators, moveRel with a
\* non-empty shift always fails with the unsupported-operation error, and
\* moveRel with an empty shift returns an already-resolved future.
C20_Original ==
    drLast.op = "moveRel" =>
        drLast.result = IF DOMAIN drLast.shift = {} THEN "InstantaneousFuture"
                        ELSE "NotImplementedError"

\* C20, amended: moveRel with a non-empty shift always fails at the call,
\* queues no task and issues no dependency call: with the validation error
\* when the shift names an axis the actuator does not have and the actuator
\* is a FixedPositionsActuator or a CombinedSensorActuator (they validate the
\* shift first), with the unsupported-operation error otherwise; moveRel with
\* an empty shift returns an already-resolved future, and changes nothing
\* either.
C20_RelativeMoveRejected ==
    /\ [](drLast.op = "moveRel" =>
            drLast.result =
                IF DOMAIN drLast.shift = {} THEN "InstantaneousFuture"
                ELSE IF DrChecksShift /\ ~(DOMAIN drLast.shift \subseteq {axis_name})
                     THEN "ValueError"
                     ELSE "NotImplementedError")
    /\ [][ FixMoveRel \/ CsMoveRel \/ CfMoveRel =>
              UNCHANGED <<cyQueue, cyRaw, cyLast, cyPosition, cyMoveSum, cyTravel,
                          csQueue, csReqs, csDepPos, csLast, csDone, csPosShift,
                          cfRaw, cfPosition>>
         ]_vars

\* a CombinedSensorActuator that has run a move and has another one waiting
\* was asked a relative move along an axis it does not have
C20_Witness ==
    /\ actuator = "CombinedSensorActuator"
    /\ csLast.op = "moveAbs"
    /\ csQueue # <<>>
    /\ drLast.op = "moveRel"
    /\ UnknownAxis \in DOMAIN drLast.shift
    /\ drLast.result = "ValueError"

\* ------------------------------------------- LinearActuator: claims
\* C21: for a LinearActuator with ref_period = n, never more than n moves
\* requested by clients are executed between two consecutive reference calls
\* to the dependency.
C21_Original ==
    lnPeriod # NoPeriod => lnSince <= lnPeriod

\* what the code keeps to: one move more than ref_period, and no automatic
\* reference without a ref_period
LnAtMostPeriodPlusOne ==
    /\ lnPeriod # NoPeriod => lnSince <= lnPeriod + 1
    /\ lnPeriod = NoPeriod /\ lnLast.op \in {"moveRel", "moveAbs"} =>
           lnLast.calls \in { <<>>, << lnLast.op >> }

\* C22: when the reference that the actuator triggers on its own at
\* construction fails, construction has already returned without error (the
\* reference was queued with the state VA fine), the failure is stored in
\* the state VA and stop is called on the dependency axis (here on the
\* LinearActuator).
C22_InitReferenceFailureRecorded ==
    /\ [](lnInitRef = "queued" => lnState = "ok")
    /\ [](lnInitRef = "failed" => lnState = "error")
    /\ [][ LnDoReference /\ Head(lnQueue).init /\ lnLast'.result = "error" =>
              /\ lnInitRef = "queued" /\ lnInitRef' = "failed"
              /\ lnState' = "error"
              /\ lnLast'.stopped
         ]_vars

\* the reference queued by __init__ has just failed
C22_Witness ==
    /\ lnInitRef = "failed"
    /\ lnLast.op = "reference" /\ lnLast.init /\ lnLast.result = "error"
    /\ lnLast.stopped
    /\ lnState = "error"

\* C23: after the automatic reference triggered at construction has failed,
\* no move that was already queued behind it on the instance is issued to the
\* dependency (here on the LinearActuator).
C23_Original ==
    ~ /\ lnInitRef = "failed"
      /\ lnLast.early
      /\ lnLast.op \in {"moveRel", "moveAbs"}
      /\ lnLast.calls # <<>>

\* ------------------------------------------- CombinedFixedPositionActuator: bodies, claims
\* C24: from the start of a commanded move (or reference) until it ends, the
\* callback is subscribed to no dependency and the exposed position does not
\* change, whatever the dependencies report; when the body has ended, with
\* success or not, the callback is subscribed to every dependency again.
C24_UnsubscribedWhileMoving ==
    /\ [](cfTask # CfNoTask => cfSubs = {})
    /\ [](cfTask = CfNoTask => cfSubs = CfDeps)
    /\ [][ cfTask # CfNoTask /\ cfTask' # CfNoTask => cfPosition' = cfPosition ]_vars
    /\ [][ CfMoveEnd \/ CfRefEnd => cfTask' # CfNoTask \/ cfSubs' = CfDeps ]_vars

\* during a move, one dependency has arrived and the raw pair matches no
\* entry of the table, while the exposed position is still a key of the table
C24_Witness ==
    /\ cfTask.op = "moveAbs"
    /\ Cardinality(cfTask.pending) = 1
    /\ readPositionfromDependencies(cfCfg, cfRaw, 1) = "LookupError"
    /\ cfPosition # cfCfg.fallback

\* C40: when a dependency move of a moveAbs fails, the body still waits for
\* the move of the other dependency to end, and computes the exposed position
\* again from the positions the dependencies are at, before the failure is
\* delivered on the future of the request.
C40_FailureAfterBothEnded ==
    [][ (CfMoveEnd /\ cfLast'.result = "error")
        => /\ cfTask.failed # {} /\ cfTask.pending = {}
           /\ cfRaw' = cfRaw
           /\ cfPosition' = updatePosition(cfCfg, cfRaw)
           /\ cfLast'.moved ]_vars

\* a moveAbs has ended with an error, the position published is the fallback,
\* computed from the positions a failed and a finished move left the
\* dependencies at, which match no entry of the table
C40_Witness ==
    /\ cfTask = CfNoTask
    /\ cfLast.op = "moveAbs" /\ cfLast.result = "error" /\ cfLast.moved
    /\ readPositionfromDependencies(cfCfg, cfRaw, 1) = "LookupError"
    /\ cfPosition = cfCfg.fallback
    /\ cfSubs = CfDeps

\* C25: updateMetadata with a new rotation, scale or translation issues no
\* call to the dependency, whose position stays as it is, and sets the
\* exposed position at once to the conversion, under the new parameters, of
\* the position of the dependency: converted to the dependency with the new
\* parameters, the exposed position is where the dependency is.
C25_MetadataRepositions ==
    [][ CvUpdateMetadata =>
           /\ cvDepPos' = cvDepPos
           /\ cvLast'.op = "updateMetadata" /\ cvLast'.sent = CvNoOp.sent
           /\ cvConv' = updateConversion(cvMd')
           /\ convertPosTodep(cvConv', cvPosition', TRUE) = cvDepPos
      ]_vars

\* the metadata were changed to a rotated, shifted frame, with the dependency
\* away from its origin
C25_Witness ==
    /\ cvLast.op = "updateMetadata"
    /\ cvMd.rotation.sin # Whole(0)
    /\ cvMd.translation # << Whole(0), Whole(0) >>
    /\ cvDepPos # << Whole(0), Whole(0) >>
    /\ cvPosition # cvDepPos

\* ------------------------------------------- AntiBacklashActuator: construction, claims

\* the axes of the dependency with a range and a backlash
AcChecked == { an \in DOMAIN acAxes \cap DOMAIN acBacklash : acAxes[an].kind = "range" }

AcSpan(an) == acAxes[an].range[2] - acAxes[an].range[1]

\* C26, as stated: the construction fails as soon as the magnitude of the
\* backlash of an axis is at least the span of the range of that axis.
C26_Original ==
    acResult # AcPending =>
        ((\E an \in AcChecked : Abs(acBacklash[an]) >= AcSpan(an))
            => acResult.error = "ValueError")

\* C26, amended: the construction fails when the magnitude of the backlash of
\* an axis is larger than the span of the range of that axis (or the backlash
\* names an axis the dependency has not); otherwise it succeeds, a backlash
\* as wide as the range included, and the range of each such axis is the
\* range of the dependency less the backlash on the side the anti-backlash
\* move comes from.
C26_FailsWhenLargerThanSpan ==
    acResult # AcPending =>
        /\ acResult.error = "ValueError" <=>
              \/ \E an \in AcChecked : Abs(acBacklash[an]) > AcSpan(an)
              \/ DOMAIN acBacklash \ DOMAIN acAxes # {}
        /\ acResult.error = "none" =>
              \A an \in AcChecked :
                 /\ acResult.axes[an].range[2] - acResult.axes[an].range[1]
                        = AcSpan(an) - Abs(acBacklash[an])
                 /\ acResult.axes[an].range[1] >= acAxes[an].range[1]
                 /\ acResult.axes[an].range[2] <= acAxes[an].range[2]

\* a construction that succeeded with a backlash as wide as the range of x:
\* the axis is left with a range of one point
C26_Witness ==
    /\ acResult.error = "none"
    /\ "x" \in AcChecked
    /\ acBacklash["x"] # 0
    /\ Abs(acBacklash["x"]) = AcSpan("x")
    /\ acResult.axes["x"].range[1] = acResult.axes["x"].range[2]

\* ------------------------------------------- MultiplexActuator: notifications, claims

\* C31: a notification of the position, the speed or the referenced VA of
\* dependency d changes, in the three snapshots that the actuator exposes,
\* only values of the axes bound to d: the values of the axes bound to the
\* other dependencies are the same after the callback as before.
C31_OnlyAxesOfNotifier ==
    [][ \A d \in Deps :
           (MnPosition(d) \/ MnSpeed(d) \/ MnReferenced(d)) =>
               \A a \in MxAxes \ dependencies_axes(d) :
                   /\ mnPosition'[a] = mnPosition[a]
                   /\ a \in MnSpeedAxes => mnSpeed'[a] = mnSpeed[a]
                   /\ a \in MnRefAxes => mnReferenced'[a] = mnReferenced[a]
      ]_vars

\* dependency B has just notified its speed, with dependency A away from the
\* values it had at construction and B at another speed than A
C31_Witness ==
    /\ mnLast = [va |-> "speed", dep |-> "B"]
    /\ mnSpeed["x"] # 0 /\ mnPosition["x"] # 0 /\ mnReferenced["x"]
    /\ mnSpeed["y"] = 0 /\ mnSpeed["z"] # 0

\* the sum over both axes of the distance from the raw pair to a target
CfTrueDistance(cur, tp) == Abs(cur[1] - tp[1]) + Abs(cur[2] - tp[2])

\* C32, as stated: a referencing of both dependencies that ends off the table
\* is followed by a move to an entry nearest to the raw pair, and when the
\* reference has ended with success the position reported is the key of the
\* table that the raw pair matches.
C32_Original ==
    /\ [][ CfRefEnd /\ cfTask'.nested =>
              \A j \in DOMAIN cfCfg.positions :
                  CfTrueDistance(cfRaw, CfTarget(cfCfg, cfTask'.key))
                      <= CfTrueDistance(cfRaw, cfCfg.positions[j].tp)
         ]_vars
    /\ [][ (CfRefEnd \/ CfMoveEnd) /\ cfTask' = CfNoTask
              /\ cfLast'.op = "reference" /\ cfLast'.result = "ok" =>
                 cfPosition' = readPositionfromDependencies(cfCfg, cfRaw', 1)
         ]_vars

\* C33, as stated: moveAbs to the fallback is refused only when the fallback
\* is not a key of the table of positions.
C33_Original ==
    [][ CfMoveAbs /\ cfLast'.result = "ValueError" /\ cfTask' = CfNoTask =>
            cfCfg.fallback \notin CfKeys(cfCfg) ]_vars

====
